---- MODULE Spec2Model ----
(***************************************************************************)
(* Model of the synchronization-and-merge engine of bmad-federated-        *)
(* knowledge:                                                              *)
(*   - GitManager (src/src/managers/git-manager.js): syncRepo and its      *)
(*     lock table and sync-timestamp table, as cooperating asynchronous    *)
(*     calls that interleave at every await;                               *)
(*   - KnowledgeMerger (src/src/core/logger.js, second half): the fold of  *)
(*     the sorted sources into the merged knowledge tree, one artifact     *)
(*     per step;                                                           *)
(*   - FederatedDependencyResolver.resolveKnowledge                        *)
(*     (src/src/resolvers/federated-dependency-resolver.js): how the list  *)
(*     of knowledge sources handed to the merger is built.                 *)
(*                                                                         *)
(* A JavaScript string that the code splits or joins at ':' is a sequence  *)
(* of its ':'-separated segments, so `${a}:${b}` is a \o b.                *)
(***************************************************************************)
EXTENDS Integers, Sequences, FiniteSets, TLC

(***************************************************************************)
(* Bounds of the model.                                                    *)
(***************************************************************************)
MaxCalls == 3

MaxTime == 2

MaxSources == 3

MaxArtifacts == 3

MaxKeys == 1

(***************************************************************************)
(* GitManager state.                                                       *)
(***************************************************************************)
VARIABLES
  syncTimestamps,  \* this.syncTimestamps: Map lockKey -> Date.now() of last success
  lockFiles,       \* this.lockFiles: Map lockKey -> Date.now() of lock acquisition
  cache,           \* the local paths that exist on disk
  now,             \* Date.now()
  calls            \* the syncRepo calls: position, arguments, returned result

syncVars == <<syncTimestamps, lockFiles, cache, now, calls>>

(***************************************************************************)
(* KnowledgeMerger state: one mergeKnowledgeSources call.                  *)
(***************************************************************************)
VARIABLES
  conflictResolution,  \* this.options.conflictResolution
  knowledgeSources,    \* the argument of mergeKnowledgeSources, as passed
  sortedSources,       \* the list after knowledgeSources.sort(...)
  mergedKnowledge,     \* the tree under construction
  mpc,                 \* position of the merge
  idx,                 \* index in sortedSources of the source being processed
  pending,             \* scanned files of the current category not yet folded
  folded               \* every artifact folded so far: source position, category, key

mergeVars == <<conflictResolution, knowledgeSources, sortedSources, mergedKnowledge,
               mpc, idx, pending, folded>>

(***************************************************************************)
(* FederatedDependencyResolver state: the registry, the configuration and  *)
(* one resolveKnowledge call.                                              *)
(***************************************************************************)
VARIABLES
  federatedRepos,  \* this.federatedRepos: the registry, in insertion order
  localKnowledge,  \* this.config.bmad_config.local_knowledge, in key order
  rpc,             \* position of resolveKnowledge
  ridx             \* index of the registry entry or local directory in turn

resolveVars == <<federatedRepos, localKnowledge, rpc, ridx>>

(***************************************************************************)
(* Callers of the GitManager and of the resolver: what they asked and what *)
(* they were answered.                                                     *)
(***************************************************************************)
VARIABLES
  answer,          \* the last shouldSync(repoName, config) call and its result
  forceSyncs,      \* per call: issued by forceSync, and the timestamp it deleted
  cleaning,        \* the cleanCache call: its position and its locals
  batch,           \* the syncAllRepositories call: its position and its locals
  admin            \* the configuration document, the saved file, and the
                   \* addRepository or removeRepository call

opsVars == <<answer, forceSyncs, cleaning, batch, admin>>

vars == <<syncVars, mergeVars, resolveVars, opsVars>>

Null == "null"

\* Map.has / Map.set / Map.delete on a Map held as a function.
MapHas(m, k) == k \in DOMAIN m

MapSet(m, k, v) == [x \in DOMAIN m \cup {k} |-> IF x = k THEN v ELSE m[x]]

MapDelete(m, k) == [x \in DOMAIN m \ {k} |-> m[x]]

EmptyMap == [x \in {} |-> Null]

\* No resolver is at work.
ResolveIdle ==
  /\ federatedRepos = <<>>
  /\ localKnowledge = <<>>
  /\ rpc = "off"
  /\ ridx = 0

\* shouldSync has not been called.
NoAnswer ==
  [sync_policy |-> Null, lockKey |-> <<>>, synced |-> FALSE, timeDiff |-> 0,
   result |-> FALSE, asked |-> FALSE]

\* A call that was not issued by forceSync.
NotForced == [forced |-> FALSE, before |-> 0]

\* cleanCache has not been called.
NotCleaning ==
  [pc |-> "idle", repoName |-> Null, lockKey |-> <<>>, localPath |-> Null, error |-> FALSE]

\* summary before syncAllRepositories computes it.
NoCounts == [total |-> -1, successful |-> -1, failed |-> -1, forced |-> FALSE]

\* syncAllRepositories has not been called; options.parallelSync has its
\* default.
NoBatch ==
  [pc |-> "off", parallelSync |-> TRUE, force |-> FALSE, i |-> 0, tasks |-> <<>>,
   results |-> EmptyMap, summary |-> NoCounts]

\* A resolver without federated_knowledge in its configuration document and
\* in the file, and nobody adding or removing a repository; lastStatus is
\* the status the registry held for `name` when its removal began.
NoAdmin ==
  [pc |-> "idle", name |-> Null, repo |-> Null, document |-> {}, saved |-> {},
   lastStatus |-> Null, error |-> FALSE]

\* No caller has asked anything.
OpsIdle ==
  /\ answer = NoAnswer
  /\ forceSyncs = [c \in 1..MaxCalls |-> NotForced]
  /\ cleaning = NotCleaning
  /\ batch = NoBatch
  /\ admin = NoAdmin

\* metadata.summary before postMergeProcessing sets it.
NoSummary == [templates |-> -1, workflows |-> -1, data |-> -1, configs |-> -1, conflicts |-> -1]

\* The tree mergeKnowledgeSources starts from.
EmptyTree(totalSources, strategy) ==
  [sources |-> <<>>, templates |-> EmptyMap, workflows |-> EmptyMap,
   data |-> EmptyMap, configs |-> EmptyMap, conflicts |-> <<>>,
   metadata |-> [totalSources |-> totalSources, strategy |-> strategy,
                 summary |-> NoSummary]]

\* No merge has been requested.
MergeIdle ==
  /\ conflictResolution = "priority"
  /\ knowledgeSources = <<>>
  /\ sortedSources = <<>>
  /\ mergedKnowledge = EmptyTree(0, "priority")
  /\ mpc = "off"
  /\ idx = 0
  /\ pending = <<>>
  /\ folded = <<>>

\* The repositories of the configuration: the (repoUrl, localPath)
\* arguments syncRepo is called with, their sync_policy, and the name their
\* URL and cache path are built around.
Repos ==
  { [name |-> "alpha", repo |-> <<"https", "//github.com/org/alpha.git">>,
     local_cache |-> <<"./bmad-cache/alpha">>, sync_policy |-> "daily"],
    [name |-> "beta", repo |-> <<"git@github.com", "org/beta.git">>,
     local_cache |-> <<"./bmad-cache/beta">>, sync_policy |-> "manual"] }

Calls == 1..MaxCalls

\* const lockKey = `${repoUrl}:${localPath}`
LockKey(repoUrl, localPath) == repoUrl \o localPath

LockKeys == { LockKey(r.repo, r.local_cache) : r \in Repos }

KeyOf(c) == LockKey(calls[c].repoUrl, calls[c].localPath)

\* A call that is past the lock check and has not returned.
InFlight(c) == calls[c].pc \notin {"idle", "done"}

InFlightOn(k) == { c \in Calls : InFlight(c) /\ KeyOf(c) = k }

ReturnedOn(k) == { c \in Calls : calls[c].pc = "done" /\ KeyOf(c) = k }

NoResult == [status |-> Null, operation |-> Null]

IdleCall ==
  [pc |-> "idle", repoUrl |-> <<>>, localPath |-> <<>>, result |-> NoResult,
   inFlightAtStart |-> {}, returnedAtStart |-> {}, io |-> FALSE]

InitSync ==
  /\ syncTimestamps = EmptyMap
  /\ lockFiles = EmptyMap
  /\ cache \in SUBSET { r.local_cache : r \in Repos }
  /\ now = 1
  /\ calls = [c \in Calls |-> IdleCall]
  /\ MergeIdle
  /\ ResolveIdle
  /\ OpsIdle

\* The clock advances between any two steps.
Tick ==
  /\ now < MaxTime
  /\ now' = now + 1
  /\ UNCHANGED <<syncTimestamps, lockFiles, cache, calls, mergeVars, resolveVars, opsVars>>

\* finally { this.lockFiles.delete(lockKey) }
Finally(locks, lockKey) == MapDelete(locks, lockKey)

\* syncRepo up to its first await: the lock check, the in_progress return
\* (which runs the finally block as every return inside the try does), or
\* the lock acquisition followed by `await fs.pathExists(absolutePath)`.
\* inFlightAtStart and returnedAtStart record which calls on the same key
\* were running, and which had returned, when this one was issued.  The
\* caller's step says what becomes of syncTimestamps.
SyncRepo(c, repoUrl, localPath) ==
  LET lockKey == LockKey(repoUrl, localPath)
      issued == [calls[c] EXCEPT !.repoUrl = repoUrl,
                                 !.localPath = localPath,
                                 !.inFlightAtStart = InFlightOn(lockKey),
                                 !.returnedAtStart = ReturnedOn(lockKey)]
  IN  /\ calls[c].pc = "idle"
      /\ IF MapHas(lockFiles, lockKey)
           THEN /\ calls' = [calls EXCEPT ![c] =
                               [issued EXCEPT !.pc = "done",
                                              !.result = [status |-> "in_progress",
                                                          operation |-> Null]]]
                /\ lockFiles' = Finally(lockFiles, lockKey)
           ELSE /\ calls' = [calls EXCEPT ![c] = [issued EXCEPT !.pc = "pathExists"]]
                /\ lockFiles' = MapSet(lockFiles, lockKey, now)
      /\ UNCHANGED <<cache, now>>

\* A caller of the GitManager issues syncRepo on one of the repositories.
SyncRepoStart(c) ==
  /\ \E r \in Repos : SyncRepo(c, r.repo, r.local_cache)
  /\ UNCHANGED <<syncTimestamps, mergeVars, resolveVars, opsVars>>

\* A step of a running call that only moves it to its next await; `io`
\* records that the call issued git.clone or git.pull.
Goto(c, pc) ==
  /\ calls' = [calls EXCEPT ![c].pc = pc,
                            ![c].io = @ \/ pc \in {"clone", "pull", "pullRetry"}]
  /\ UNCHANGED <<syncTimestamps, lockFiles, cache, now, mergeVars, resolveVars, opsVars>>

\* exists = await fs.pathExists(absolutePath): pull an existing repository,
\* otherwise ensureDir(dirname) and clone.
PathExistsDone(c) ==
  /\ calls[c].pc = "pathExists"
  /\ Goto(c, IF calls[c].localPath \in cache THEN "revparse" ELSE "ensureDir")

EnsureDirDone(c) ==
  /\ calls[c].pc = "ensureDir"
  /\ Goto(c, "clone")

\* await git.clone(...) resolved: the cache path now exists.
CloneDone(c) ==
  /\ calls[c].pc = "clone"
  /\ calls' = [calls EXCEPT ![c].pc = "cloneLog"]
  /\ cache' = cache \cup {calls[c].localPath}
  /\ UNCHANGED <<syncTimestamps, lockFiles, now, mergeVars, resolveVars, opsVars>>

\* The tail of the try block after clone or pull returned `result`:
\* syncTimestamps.set(lockKey, Date.now()), return {status: 'success', ...},
\* finally release the lock.
SyncRepoSuccess(c, operation) ==
  /\ syncTimestamps' = MapSet(syncTimestamps, KeyOf(c), now)
  /\ calls' = [calls EXCEPT ![c].pc = "done",
                            ![c].result = [status |-> "success", operation |-> operation]]
  /\ lockFiles' = Finally(lockFiles, KeyOf(c))
  /\ UNCHANGED <<cache, now, mergeVars, resolveVars, opsVars>>

\* cloneRepository: await gitInstance.log(['-1']) resolved.
CloneLogDone(c) ==
  /\ calls[c].pc = "cloneLog"
  /\ SyncRepoSuccess(c, "clone")

\* pullRepository: currentBranch = await git.revparse(...); checkout only
\* when the cache is on another branch.
RevparseDone(c) ==
  /\ calls[c].pc = "revparse"
  /\ \E onBranch \in BOOLEAN : Goto(c, IF onBranch THEN "pull" ELSE "checkout")

CheckoutDone(c) ==
  /\ calls[c].pc = "checkout"
  /\ Goto(c, "pull")

PullDone(c) ==
  /\ calls[c].pc = "pull"
  /\ Goto(c, "pullLog")

PullLogDone(c) ==
  /\ calls[c].pc = "pullLog"
  /\ SyncRepoSuccess(c, "pull")

\* A catch that also takes a rejected second pull: reset and pull until
\* the pull succeeds.
PullFailedAgain(c) ==
  /\ calls[c].pc \in {"revparse", "checkout", "pull", "pullLog", "pullRetry"}
  /\ Goto(c, "reset")

\* pullRepository's catch: any rejected step of the pull path leads to
\* await git.reset(['--hard', `origin/${branch}`]).
PullFailed(c) ==
  /\ calls[c].pc \in {"revparse", "checkout", "pull", "pullLog"}
  /\ Goto(c, "reset")

ResetDone(c) ==
  /\ calls[c].pc = "reset"
  /\ Goto(c, "pullRetry")

PullRetryDone(c) ==
  /\ calls[c].pc = "pullRetry"
  /\ SyncRepoSuccess(c, "reset_and_pull")

\* syncRepo's catch with the lock release left at the end of the try block
\* instead of in a finally block: a failed sync keeps the lock.
SyncRepoCatchKeepsLock(c) ==
  /\ calls[c].pc \in {"pathExists", "ensureDir", "clone", "cloneLog", "reset", "pullRetry"}
  /\ calls' = [calls EXCEPT ![c].pc = "done",
                            ![c].result = [status |-> "error", operation |-> Null]]
  /\ UNCHANGED <<syncTimestamps, lockFiles, cache, now, mergeVars, resolveVars, opsVars>>

\* syncRepo's catch with the timestamp update moved into the finally block:
\* a failed sync stamps the key too.
SyncRepoCatchStamps(c) ==
  /\ calls[c].pc \in {"pathExists", "ensureDir", "clone", "cloneLog", "reset", "pullRetry"}
  /\ calls' = [calls EXCEPT ![c].pc = "done",
                            ![c].result = [status |-> "error", operation |-> Null]]
  /\ syncTimestamps' = MapSet(syncTimestamps, KeyOf(c), now)
  /\ lockFiles' = Finally(lockFiles, KeyOf(c))
  /\ UNCHANGED <<cache, now, mergeVars, resolveVars, opsVars>>

\* syncRepo's catch logging and throwing the error again; the finally
\* block releases the lock.
SyncRepoCatchRethrows(c) ==
  /\ calls[c].pc \in {"pathExists", "ensureDir", "clone", "cloneLog", "reset", "pullRetry"}
  /\ calls' = [calls EXCEPT ![c].pc = "done",
                            ![c].result = [status |-> "thrown", operation |-> Null]]
  /\ lockFiles' = Finally(lockFiles, KeyOf(c))
  /\ UNCHANGED <<syncTimestamps, cache, now, mergeVars, resolveVars, opsVars>>

\* syncRepo's catch returning {status: 'failed', ...}.
SyncRepoCatchFailed(c) ==
  /\ calls[c].pc \in {"pathExists", "ensureDir", "clone", "cloneLog", "reset", "pullRetry"}
  /\ calls' = [calls EXCEPT ![c].pc = "done",
                            ![c].result = [status |-> "failed", operation |-> Null]]
  /\ lockFiles' = Finally(lockFiles, KeyOf(c))
  /\ UNCHANGED <<syncTimestamps, cache, now, mergeVars, resolveVars, opsVars>>

\* syncRepo's catch: a rejected pathExists, ensureDir, clone, log after
\* clone, reset or second pull; return {status: 'error', ...}, finally
\* release the lock.
SyncRepoCatch(c) ==
  /\ calls[c].pc \in {"pathExists", "ensureDir", "clone", "cloneLog", "reset", "pullRetry"}
  /\ calls' = [calls EXCEPT ![c].pc = "done",
                            ![c].result = [status |-> "error", operation |-> Null]]
  /\ lockFiles' = Finally(lockFiles, KeyOf(c))
  /\ UNCHANGED <<syncTimestamps, cache, now, mergeVars, resolveVars, opsVars>>

NextSync ==
  \/ Tick
  \/ \E c \in Calls : SyncRepoStart(c)
  \/ \E c \in Calls : PathExistsDone(c)
  \/ \E c \in Calls : EnsureDirDone(c)
  \/ \E c \in Calls : CloneDone(c)
  \/ \E c \in Calls : CloneLogDone(c)
  \/ \E c \in Calls : RevparseDone(c)
  \/ \E c \in Calls : CheckoutDone(c)
  \/ \E c \in Calls : PullDone(c)
  \/ \E c \in Calls : PullLogDone(c)
  \/ \E c \in Calls : PullFailed(c)
  \/ \E c \in Calls : ResetDone(c)
  \/ \E c \in Calls : PullRetryDone(c)
  \/ \E c \in Calls : SyncRepoCatch(c)

SpecSync == InitSync /\ [][NextSync]_vars

(***************************************************************************)
(* KnowledgeMerger.                                                        *)
(***************************************************************************)

\* The GitManager of a process that only merges: constructed, never used.
SyncIdle ==
  /\ syncTimestamps = EmptyMap
  /\ lockFiles = EmptyMap
  /\ cache = {}
  /\ now = 1
  /\ calls = [c \in Calls |-> IdleCall]

\* conflict_resolution: Joi.string().valid('priority', 'manual', 'local_wins')
Strategies == {"priority", "local_wins", "manual"}

\* priority: Joi.number().integer().min(0).max(999); the values the README's
\* examples and the resolver use.
Priorities == {0, 1, 999}

\* A knowledge source object as resolveKnowledge builds it: a federated one
\* carries `repo` (its registry name), a local one has no `repo`.
KnowledgeSource(i, priority, source) ==
  [path |-> <<"./knowledge/" \o ToString(i)>>,
   priority |-> priority,
   source |-> source,
   repo |-> IF source = "federated" THEN "repo" \o ToString(i) ELSE Null]

\* source.repo || source.source
Origin(source) == IF source.repo # Null THEN source.repo ELSE source.source

\* The comparator with its operands swapped: lowest priority first.
CompareAscending(a, b) == a.priority - b.priority

\* The comparator of knowledgeSources.sort((a, b) => b.priority - a.priority).
Compare(a, b) == b.priority - a.priority

\* Array.prototype.sort with that comparator: a stable sort (ECMAScript 2019;
\* V8 before that also sorted arrays of at most 10 elements by insertion),
\* computed by inserting each element behind every element that does not
\* sort after it.
RECURSIVE SortSources(_)
SortSources(list) ==
  IF list = <<>>
    THEN <<>>
    ELSE LET init == SortSources(SubSeq(list, 1, Len(list) - 1))
             s == list[Len(list)]
         IN  SelectSeq(init, LAMBDA e : Compare(e, s) <= 0)
               \o <<s>>
               \o SelectSeq(init, LAMBDA e : Compare(e, s) > 0)

\* A relative path is the sequence of its name parts and separators.
\* normalizeKey: key.replace(/\\/g, '/').toLowerCase()
ToSlash(part) == IF part = "\\" THEN "/" ELSE part

ToLowerCase(part) ==
  CASE part = "API" -> "api"
    [] part = "Deploy" -> "deploy"
    [] OTHER -> part

NormalizeKey(relativePath) ==
  [n \in 1..Len(relativePath) |-> ToLowerCase(ToSlash(relativePath[n]))]

\* A parsed value: a structured map (fields), a list (items), or a plain
\* string (text).
MapValue(fields) == [t |-> "map", fields |-> fields, items |-> <<>>, text |-> <<>>]

ListValue(items) == [t |-> "list", fields |-> EmptyMap, items |-> items, text |-> <<>>]

StringValue(text) == [t |-> "string", fields |-> EmptyMap, items |-> <<>>, text |-> text]

\* A file content: a document in a format, holding a value.  A plain
\* document is text that is neither a JSON nor a YAML collection.
Document(format, value) == [format |-> format, value |-> value]

\* parseContent: JSON.parse, else yaml.parse, else the string itself.
ParseContent(content) ==
  IF content.format \in {"json", "yaml"}
    THEN content.value
    ELSE StringValue(content.value.text)

\* JSON.stringify(merged, null, 2)
Stringify(value) == Document("json", value)

\* A test that takes every parsed value for an object.
IsObjectAlways(value) == TRUE

\* _.isObject: true of maps and of arrays.
IsObject(value) == value.t \in {"map", "list"}

\* The own enumerable keys of a value with their values: the fields of a
\* map, the indices "0", "1", ... of a list.
Properties(value) ==
  IF value.t = "list"
    THEN [k \in { ToString(i - 1) : i \in DOMAIN value.items } |->
            value.items[CHOOSE i \in DOMAIN value.items : ToString(i - 1) = k]]
    ELSE value.fields

\* _.mergeWith that takes the source alone.
MergeWithSourceOnly(object, source) == source

\* _.mergeWith(object, source, customizer) on maps and lists of scalars,
\* as JSON.stringify shows the result: the customizer concatenates array
\* fields only, so every key of the source is assigned to the object and
\* the other keys are kept.  A map takes the indices of a list as fields;
\* a list takes the elements of a list by index, and the fields of a map as
\* properties that JSON.stringify leaves out.
MergeWith(object, source) ==
  LET assigned == [k \in DOMAIN Properties(object) \cup DOMAIN Properties(source) |->
                     IF k \in DOMAIN Properties(source)
                       THEN Properties(source)[k]
                       ELSE Properties(object)[k]]
  IN  IF object.t = "map"
        THEN MapValue(assigned)
        ELSE ListValue([i \in 1..(IF source.t = "list" /\ Len(source.items) > Len(object.items)
                                     THEN Len(source.items)
                                     ELSE Len(object.items)) |->
                          assigned[ToString(i - 1)]])

\* What a directory of a source may hold, in readdir order.
TemplateFiles == << <<"API", ".yaml">>, <<"api", ".yaml">> >>

WorkflowFiles == << <<"ci", "\\", "Deploy", ".yaml">> >>

DataFiles == << <<"glossary", ".json">> >>

\* const configFiles = [...]
ConfigFiles ==
  << <<"core-config", ".yaml">>, <<"core-config", ".yml">>,
     <<"bmad-config", ".yaml">>, <<"bmad-config", ".yml">> >>

\* The subsequences of a list: the files of it that are present.
RECURSIVE Subsequences(_)
Subsequences(list) ==
  IF list = <<>>
    THEN { <<>> }
    ELSE LET rest == Subsequences(Tail(list))
         IN  rest \cup { <<Head(list)>> \o r : r \in rest }

\* The text of the file `relativePath` of directory `dir` of a source.
TextOf(source, dir, relativePath) ==
  Document("plain", StringValue(<<source.path, dir>> \o relativePath))

\* The contents a data file of a source may have: plain text, a JSON or
\* YAML map with one field naming the source, or a JSON list of one element
\* naming the source.
DataContents(source) ==
  { Document("plain", StringValue(<<source.path, "core-data">>)),
    Document("json", MapValue([f \in {"owner"} |-> source.path])),
    Document("yaml", MapValue([f \in {"team"} |-> source.path])),
    Document("json", ListValue(<<source.path>>)) }

\* A scanned file: scanDirectory's {path, name, extension, content, size},
\* of which the merge reads the relative path and the content.
File(relativePath, content) == [relativePath |-> relativePath, content |-> content]

\* {...file, source: source.repo || source.source, priority: source.priority}
Entry(file, source) ==
  [content |-> file.content, source |-> Origin(source), priority |-> source.priority,
   merged |-> FALSE, sources |-> <<>>]

\* handleConflict's switch with >= for > in the `priority` case: an
\* incoming source of the same priority replaces the entry.
ResolutionTiesReplace(existing, source) ==
  CASE conflictResolution = "priority" ->
         IF source.priority >= existing.priority THEN "replace" ELSE "keep"
    [] conflictResolution = "local_wins" ->
         IF existing.source = "local" THEN "keep" ELSE "replace"
    [] conflictResolution = "manual" -> "manual"
    [] OTHER -> "keep"

\* handleConflict's switch without the `manual` case: the strategy falls
\* to the default branch.
ResolutionManualIsDefault(existing, source) ==
  CASE conflictResolution = "priority" ->
         IF source.priority > existing.priority THEN "replace" ELSE "keep"
    [] conflictResolution = "local_wins" ->
         IF existing.source = "local" THEN "keep" ELSE "replace"
    [] OTHER -> "keep"

\* handleConflict's switch on this.options.conflictResolution.
Resolution(existing, source) ==
  CASE conflictResolution = "priority" ->
         IF source.priority > existing.priority THEN "replace" ELSE "keep"
    [] conflictResolution = "local_wins" ->
         IF existing.source = "local" THEN "keep" ELSE "replace"
    [] conflictResolution = "manual" -> "manual"
    [] OTHER -> "keep"

Reason(existing, source) ==
  CASE conflictResolution = "priority" ->
         IF source.priority > existing.priority
           THEN "Higher priority source" ELSE "Lower priority source"
    [] conflictResolution = "local_wins" ->
         IF existing.source = "local"
           THEN "Local source takes precedence" ELSE "No local source conflict"
    [] conflictResolution = "manual" -> "Manual resolution required"
    [] OTHER -> "Default strategy"

NoParty == [source |-> Null, priority |-> -1]

\* handleConflict: the conflict record with its resolution.
HandleConflict(type, key, existing, incoming, source) ==
  [type |-> type,
   key |-> key,
   existing |-> [source |-> existing.source, priority |-> existing.priority],
   incoming |-> [source |-> Origin(source), priority |-> source.priority],
   resolution |-> Resolution(existing, source),
   reason |-> Reason(existing, source)]

\* The loop body with the push of the conflict record moved into the
\* `replace` branch: a collision that keeps the entry leaves no record.
FoldEntryRecordsReplaceOnly(mk, category, type, file, source) ==
  LET key == NormalizeKey(file.relativePath)
  IN  IF MapHas(mk[category], key)
        THEN LET conflict == HandleConflict(type, key, mk[category][key], file, source)
             IN  IF conflict.resolution = "replace"
                   THEN [mk EXCEPT ![category] = MapSet(@, key, Entry(file, source)),
                                   !.conflicts = Append(@, conflict)]
                   ELSE mk
        ELSE [mk EXCEPT ![category] = MapSet(@, key, Entry(file, source))]

\* The body of the loops of processTemplates, processWorkflows and
\* processConfigs for one file: insert a new key; on a key already present
\* call handleConflict, replace the entry when it says so, and push the
\* conflict record.
FoldEntry(mk, category, type, file, source) ==
  LET key == NormalizeKey(file.relativePath)
  IN  IF MapHas(mk[category], key)
        THEN LET conflict == HandleConflict(type, key, mk[category][key], file, source)
             IN  [mk EXCEPT
                    ![category] = IF conflict.resolution = "replace"
                                    THEN MapSet(@, key, Entry(file, source))
                                    ELSE @,
                    !.conflicts = Append(@, conflict)]
        ELSE [mk EXCEPT ![category] = MapSet(@, key, Entry(file, source))]

\* handleDataConflict: when both contents parse as objects, merge them into
\* the existing entry and report `merged`; otherwise fall back to
\* handleConflict.  processData pushes the record and never replaces.
FoldData(mk, file, source) ==
  LET key == NormalizeKey(file.relativePath)
  IN  IF MapHas(mk.data, key)
        THEN LET existing == mk.data[key]
                 existingContent == ParseContent(existing.content)
                 incomingContent == ParseContent(file.content)
             IN  IF IsObject(existingContent) /\ IsObject(incomingContent)
                   THEN [mk EXCEPT
                           !.data = MapSet(@, key,
                                      [existing EXCEPT
                                         !.content = Stringify(MergeWith(existingContent,
                                                                         incomingContent)),
                                         !.merged = TRUE,
                                         !.sources = <<existing.source, Origin(source)>>]),
                           !.conflicts = Append(@,
                                      [type |-> "data", key |-> key,
                                       existing |-> NoParty, incoming |-> NoParty,
                                       resolution |-> "merged",
                                       reason |-> "Successfully merged data structures"])]
                   ELSE [mk EXCEPT
                           !.conflicts = Append(@, HandleConflict("data", key, existing,
                                                                  file, source))]
        ELSE [mk EXCEPT !.data = MapSet(@, key, Entry(file, source))]

\* The knowledge source lists mergeKnowledgeSources is called with.
\* A federated source has any priority; a local one the resolver's 999, or
\* the lowest priority when a caller of the merger overrides it.
SourceKinds ==
  [priority : Priorities, source : {"federated"}]
    \cup [priority : {0, 999}, source : {"local"}]

SourceLists == UNION { [1..n -> SourceKinds] : n \in 1..MaxSources }

InitMerge ==
  /\ SyncIdle
  /\ ResolveIdle
  /\ OpsIdle
  /\ conflictResolution \in Strategies
  /\ \E kinds \in SourceLists :
       knowledgeSources =
         [i \in DOMAIN kinds |-> KnowledgeSource(i, kinds[i].priority, kinds[i].source)]
  /\ sortedSources = <<>>
  /\ mergedKnowledge = EmptyTree(0, conflictResolution)
  /\ mpc = "idle"
  /\ idx = 0
  /\ pending = <<>>
  /\ folded = <<>>

\* mergeKnowledgeSources up to the loop: sort, then the empty tree.
MergeKnowledgeSources ==
  /\ mpc = "idle"
  /\ sortedSources' = SortSources(knowledgeSources)
  /\ mergedKnowledge' = EmptyTree(Len(knowledgeSources), conflictResolution)
  /\ mpc' = "source"
  /\ idx' = 1
  /\ UNCHANGED <<conflictResolution, knowledgeSources, pending, folded, syncVars, resolveVars, opsVars>>

\* await fs.pathExists(path) may answer `exists`: a cache path of the
\* GitManager exists when it is in `cache`, any other path may or may not.
PathExists(path, exists) ==
  path \in { r.local_cache : r \in Repos } => (exists <=> path \in cache)

\* processKnowledgeSource pushing the provenance record ahead of the
\* existence test: a missing source is recorded before it is skipped.
SkipKnowledgeSourceRecorded ==
  /\ mpc = "source"
  /\ idx <= Len(sortedSources)
  /\ PathExists(sortedSources[idx].path, FALSE)
  /\ LET source == sortedSources[idx]
     IN  mergedKnowledge' =
           [mergedKnowledge EXCEPT !.sources =
              Append(@, [name |-> Origin(source), path |-> source.path,
                         priority |-> source.priority, type |-> source.source])]
  /\ idx' = idx + 1
  /\ UNCHANGED <<conflictResolution, knowledgeSources, sortedSources, mpc, pending,
                 folded, syncVars, resolveVars, opsVars>>

\* processKnowledgeSource on a path that does not exist: warn and return.
SkipKnowledgeSource ==
  /\ mpc = "source"
  /\ idx <= Len(sortedSources)
  /\ PathExists(sortedSources[idx].path, FALSE)
  /\ idx' = idx + 1
  /\ UNCHANGED <<conflictResolution, knowledgeSources, sortedSources, mergedKnowledge,
                 mpc, pending, folded, syncVars, resolveVars, opsVars>>

\* processKnowledgeSource on an existing path: push the provenance record,
\* then the four categories in turn.
ProcessKnowledgeSource ==
  /\ mpc = "source"
  /\ idx <= Len(sortedSources)
  /\ PathExists(sortedSources[idx].path, TRUE)
  /\ LET source == sortedSources[idx]
     IN  mergedKnowledge' =
           [mergedKnowledge EXCEPT !.sources =
              Append(@, [name |-> Origin(source), path |-> source.path,
                         priority |-> source.priority, type |-> source.source])]
  /\ mpc' = "scanTemplates"
  /\ UNCHANGED <<conflictResolution, knowledgeSources, sortedSources, idx, pending,
                 folded, syncVars, resolveVars, opsVars>>

\* The (category, key) pairs met so far.
KeysFolded == { <<folded[n].category, folded[n].key>> : n \in DOMAIN folded }

\* The files a scan may return: a listing of the directory that keeps the
\* run within MaxArtifacts artifacts and MaxKeys distinct keys.
Listings(category, files) ==
  { l \in Subsequences(files) :
      /\ Len(folded) + Len(l) <= MaxArtifacts
      /\ Cardinality(KeysFolded \cup { <<category, NormalizeKey(l[n])>> : n \in DOMAIN l })
           <= MaxKeys }

\* A scan returned `files`: fold them one by one, or move on when there
\* are none (also when the directory does not exist).
Scanned(files, foldAt, after) ==
  /\ pending' = files
  /\ mpc' = IF files = <<>> THEN after ELSE foldAt
  /\ idx' = IF files = <<>> /\ after = "source" THEN idx + 1 ELSE idx
  /\ UNCHANGED <<conflictResolution, knowledgeSources, sortedSources, mergedKnowledge,
                 folded, syncVars, resolveVars, opsVars>>

\* One iteration of a category's loop folded the head of `pending` into
\* the tree `mk`.
Folded(mk, category, after) ==
  /\ mergedKnowledge' = mk
  /\ folded' = Append(folded, [pos |-> idx, category |-> category,
                               key |-> NormalizeKey(Head(pending).relativePath),
                               content |-> Head(pending).content])
  /\ pending' = Tail(pending)
  /\ mpc' = IF Tail(pending) = <<>> THEN after ELSE mpc
  /\ idx' = IF Tail(pending) = <<>> /\ after = "source" THEN idx + 1 ELSE idx
  /\ UNCHANGED <<conflictResolution, knowledgeSources, sortedSources, syncVars, resolveVars, opsVars>>

\* processTemplates: scanDirectory(templatesPath, ...)
ScanTemplates ==
  /\ mpc = "scanTemplates"
  /\ \E l \in Listings("templates", TemplateFiles) :
       Scanned([n \in DOMAIN l |-> File(l[n], TextOf(sortedSources[idx], "templates", l[n]))],
               "templates", "scanWorkflows")

ProcessTemplates ==
  /\ mpc = "templates"
  /\ Folded(FoldEntry(mergedKnowledge, "templates", "template", Head(pending),
                      sortedSources[idx]),
            "templates", "scanWorkflows")

\* processWorkflows
ScanWorkflows ==
  /\ mpc = "scanWorkflows"
  /\ \E l \in Listings("workflows", WorkflowFiles) :
       Scanned([n \in DOMAIN l |-> File(l[n], TextOf(sortedSources[idx], "workflows", l[n]))],
               "workflows", "scanData")

ProcessWorkflows ==
  /\ mpc = "workflows"
  /\ Folded(FoldEntry(mergedKnowledge, "workflows", "workflow", Head(pending),
                      sortedSources[idx]),
            "workflows", "scanData")

\* processData: scanDirectory(dataPath, ...)
ScanData ==
  /\ mpc = "scanData"
  /\ \E l \in Listings("data", DataFiles) :
       \E content \in DataContents(sortedSources[idx]) :
         Scanned([n \in DOMAIN l |-> File(l[n], content)], "data", "scanConfigs")

ProcessData ==
  /\ mpc = "data"
  /\ Folded(FoldData(mergedKnowledge, Head(pending), sortedSources[idx]),
            "data", "scanConfigs")

\* processConfigs: the config files of the list that exist, read in order.
ScanConfigs ==
  /\ mpc = "scanConfigs"
  /\ \E l \in Listings("configs", ConfigFiles) :
       Scanned([n \in DOMAIN l |-> File(l[n], TextOf(sortedSources[idx], "", l[n]))],
               "configs", "source")

ProcessConfigs ==
  /\ mpc = "configs"
  /\ Folded(FoldEntry(mergedKnowledge, "configs", "config", Head(pending),
                      sortedSources[idx]),
            "configs", "source")

\* postMergeProcessing: the summary counts; then the tree is returned.
PostMergeProcessing ==
  /\ mpc = "source"
  /\ idx > Len(sortedSources)
  /\ mergedKnowledge' =
       [mergedKnowledge EXCEPT !.metadata.summary =
          [templates |-> Cardinality(DOMAIN mergedKnowledge.templates),
           workflows |-> Cardinality(DOMAIN mergedKnowledge.workflows),
           data |-> Cardinality(DOMAIN mergedKnowledge.data),
           configs |-> Cardinality(DOMAIN mergedKnowledge.configs),
           conflicts |-> Len(mergedKnowledge.conflicts)]]
  /\ mpc' = "done"
  /\ UNCHANGED <<conflictResolution, knowledgeSources, sortedSources, idx, pending,
                 folded, syncVars, resolveVars, opsVars>>

NextMerge ==
  \/ MergeKnowledgeSources
  \/ SkipKnowledgeSource
  \/ ProcessKnowledgeSource
  \/ ScanTemplates
  \/ ProcessTemplates
  \/ ScanWorkflows
  \/ ProcessWorkflows
  \/ ScanData
  \/ ProcessData
  \/ ScanConfigs
  \/ ProcessConfigs
  \/ PostMergeProcessing

SpecMerge == InitMerge /\ [][NextMerge]_vars

\* The registry names of the federated sources of a `local_wins` merge: a
\* name is any key of federated_knowledge, "local" among them.
FederatedNames(i) == {"repo" \o ToString(i), "local"}

\* The source lists of a `local_wins` merge: federated sources of the
\* default priority under their registry names, and local ones.
NamedSourceLists ==
  UNION { { list \in [1..n -> [path : {<<"./knowledge/" \o ToString(i)>> : i \in 1..n},
                               priority : {0, 999},
                               source : {"federated", "local"},
                               repo : UNION { FederatedNames(i) : i \in 1..n } \cup {Null}]] :
              \A i \in 1..n :
                /\ list[i].path = <<"./knowledge/" \o ToString(i)>>
                /\ IF list[i].source = "federated"
                     THEN list[i].repo \in FederatedNames(i) /\ list[i].priority = 0
                     ELSE list[i].repo = Null } :
          n \in 1..MaxSources }

\* A merger with the `local_wins` strategy and its source list.
InitLocalWins ==
  /\ SyncIdle
  /\ ResolveIdle
  /\ OpsIdle
  /\ conflictResolution = "local_wins"
  /\ knowledgeSources \in NamedSourceLists
  /\ sortedSources = <<>>
  /\ mergedKnowledge = EmptyTree(0, conflictResolution)
  /\ mpc = "idle"
  /\ idx = 0
  /\ pending = <<>>
  /\ folded = <<>>

SpecLocalWins == InitLocalWins /\ [][NextMerge]_vars

(***************************************************************************)
(* FederatedDependencyResolver.resolveKnowledge.                           *)
(***************************************************************************)

\* The registry entry initializeFederatedRepos sets for `name`:
\* {...config, name, status: 'initialized', lastSync: null,
\*  syncInProgress: false}; lastSync 0 stands for null.
RepoConfig(name, repo, priority) ==
  [name |-> name, repo |-> repo.repo, local_cache |-> repo.local_cache,
   priority |-> priority, sync_policy |-> repo.sync_policy,
   status |-> "initialized", lastSync |-> 0, syncInProgress |-> FALSE]

\* The registries of a configuration: repositories with disjoint caches, in
\* the order of the federated_knowledge object.
Registries ==
  { reg \in UNION { [1..n -> Repos \X Priorities] :
                      n \in 0..Cardinality(Repos) } :
      \A i, j \in DOMAIN reg : i # j => reg[i][1] # reg[j][1] }

\* local_knowledge of the configuration when it is present: the keys the
\* schema knows, with their default paths, in the order of the object.
LocalKnowledgeEntries ==
  << [type |-> "core_data", path |-> <<"./.bmad-fks-core/core-data">>],
     [type |-> "templates", path |-> <<"./.bmad-fks-core/templates">>],
     [type |-> "workflows", path |-> <<"./.bmad-fks-core/workflows">>] >>

\* shouldSync with the policy switch ahead of the never-synced test: a
\* source without a timestamp is answered by its policy.
ShouldSyncPolicyFirst(config) ==
  LET lockKey == LockKey(config.repo, config.local_cache)
      timeDiff == IF MapHas(syncTimestamps, lockKey)
                    THEN now - syncTimestamps[lockKey]
                    ELSE now
  IN  CASE config.sync_policy = "daily" -> timeDiff > 24 * 60 * 60 * 1000
        [] config.sync_policy = "weekly" -> timeDiff > 7 * 24 * 60 * 60 * 1000
        [] OTHER -> FALSE

\* GitManager.shouldSync(repoName, config)
ShouldSync(config) ==
  LET lockKey == LockKey(config.repo, config.local_cache)
  IN  IF ~MapHas(syncTimestamps, lockKey)
        THEN TRUE
        ELSE LET timeDiff == now - syncTimestamps[lockKey]
             IN  CASE config.sync_policy = "daily" -> timeDiff > 24 * 60 * 60 * 1000
                   [] config.sync_policy = "weekly" -> timeDiff > 7 * 24 * 60 * 60 * 1000
                   [] config.sync_policy = "on_demand" -> FALSE
                   [] config.sync_policy = "manual" -> FALSE
                   [] OTHER -> FALSE

\* The source resolveKnowledge pushes for a registry entry.
FederatedSource(config) ==
  [path |-> config.local_cache, priority |-> config.priority,
   source |-> "federated", repo |-> config.name]

\* The source resolveKnowledge pushes for a local knowledge directory.
LocalSource(entry) ==
  [path |-> entry.path, priority |-> 999, source |-> "local", repo |-> Null]

\* A resolver of a fresh process, initialized from its configuration, at
\* the start of resolveKnowledge; the merger has its default strategy.
InitResolve ==
  /\ syncTimestamps = EmptyMap
  /\ lockFiles = EmptyMap
  /\ cache \in SUBSET { r.local_cache : r \in Repos }
  /\ now = 1
  /\ calls = [c \in Calls |-> IdleCall]
  /\ MergeIdle
  /\ OpsIdle
  /\ \E reg \in Registries :
       federatedRepos =
         [i \in DOMAIN reg |-> RepoConfig("repo" \o ToString(i), reg[i][1], reg[i][2])]
  /\ localKnowledge \in {<<>>, LocalKnowledgeEntries}
  /\ rpc = "sources"
  /\ ridx = 1

\* The loop over the registry: syncRepository(name, config) up to its first
\* await.  A sync that is not needed, or is marked in progress, returns at
\* once (the finally block clears syncInProgress) and the source is pushed;
\* otherwise the entry is marked and gitManager.syncRepo is called.
SyncRepository ==
  /\ rpc = "sources"
  /\ ridx <= Len(federatedRepos)
  /\ LET config == federatedRepos[ridx]
     IN  IF ~ShouldSync(config) \/ config.syncInProgress
           THEN /\ federatedRepos' = [federatedRepos EXCEPT ![ridx].syncInProgress = FALSE]
                /\ knowledgeSources' = Append(knowledgeSources, FederatedSource(config))
                /\ ridx' = ridx + 1
                /\ UNCHANGED <<rpc, syncVars>>
           ELSE /\ federatedRepos' = [federatedRepos EXCEPT ![ridx].syncInProgress = TRUE]
                /\ SyncRepo(ridx, config.repo, config.local_cache)
                /\ rpc' = "syncing"
                /\ UNCHANGED <<syncTimestamps, knowledgeSources, ridx>>
  /\ UNCHANGED <<localKnowledge, conflictResolution, sortedSources, mergedKnowledge,
                 mpc, idx, pending, folded, opsVars>>


\* syncRepository rejecting on a result with status error: the catch block
\* of the loop of resolveKnowledge logs it and the source is not pushed.
SyncRepositoryDoneDropsFailed ==
  /\ rpc = "syncing"
  /\ calls[ridx].pc = "done"
  /\ federatedRepos' = [federatedRepos EXCEPT ![ridx].lastSync = now,
                                              ![ridx].status = calls[ridx].result.status,
                                              ![ridx].syncInProgress = FALSE]
  /\ knowledgeSources' =
       IF calls[ridx].result.status = "error"
         THEN knowledgeSources
         ELSE Append(knowledgeSources, FederatedSource(federatedRepos'[ridx]))
  /\ calls' = [calls EXCEPT ![ridx] = IdleCall]
  /\ rpc' = "sources"
  /\ ridx' = ridx + 1
  /\ UNCHANGED <<syncTimestamps, lockFiles, cache, now, localKnowledge, conflictResolution,
                 sortedSources, mergedKnowledge, mpc, idx, pending, folded, opsVars>>

\* gitManager.syncRepo returned `result`: config.lastSync = Date.now(),
\* config.status = result.status, finally syncInProgress = false; back in
\* resolveKnowledge the source is pushed.
SyncRepositoryDone ==
  /\ rpc = "syncing"
  /\ calls[ridx].pc = "done"
  /\ federatedRepos' = [federatedRepos EXCEPT ![ridx].lastSync = now,
                                              ![ridx].status = calls[ridx].result.status,
                                              ![ridx].syncInProgress = FALSE]
  /\ knowledgeSources' = Append(knowledgeSources, FederatedSource(federatedRepos'[ridx]))
  /\ calls' = [calls EXCEPT ![ridx] = IdleCall]
  /\ rpc' = "sources"
  /\ ridx' = ridx + 1
  /\ UNCHANGED <<syncTimestamps, lockFiles, cache, now, localKnowledge, conflictResolution,
                 sortedSources, mergedKnowledge, mpc, idx, pending, folded, opsVars>>

\* The loop over local_knowledge: exists = await fs.pathExists(localPath);
\* an existing directory is pushed with priority 999.
AddLocalKnowledge ==
  /\ rpc = "sources"
  /\ ridx > Len(federatedRepos)
  /\ ridx <= Len(federatedRepos) + Len(localKnowledge)
  /\ \E exists \in BOOLEAN :
       /\ exists => Len(knowledgeSources) < MaxSources
       /\ knowledgeSources' =
            IF exists
              THEN Append(knowledgeSources,
                          LocalSource(localKnowledge[ridx - Len(federatedRepos)]))
              ELSE knowledgeSources
  /\ ridx' = ridx + 1
  /\ UNCHANGED <<federatedRepos, localKnowledge, rpc, syncVars, conflictResolution,
                 sortedSources, mergedKnowledge, mpc, idx, pending, folded, opsVars>>

\* await this.knowledgeMerger.mergeKnowledgeSources(knowledgeSources, ...)
ResolveMerge ==
  /\ rpc = "sources"
  /\ ridx > Len(federatedRepos) + Len(localKnowledge)
  /\ rpc' = "merging"
  /\ mpc' = "idle"
  /\ UNCHANGED <<federatedRepos, localKnowledge, ridx, syncVars, conflictResolution,
                 knowledgeSources, sortedSources, mergedKnowledge, idx, pending, folded,
                 opsVars>>

\* return {sources: knowledgeSources, merged: mergedKnowledge, ...}
ResolveReturn ==
  /\ rpc = "merging"
  /\ mpc = "done"
  /\ rpc' = "done"
  /\ UNCHANGED <<federatedRepos, localKnowledge, ridx, syncVars, mergeVars, opsVars>>

NextResolve ==
  \/ SyncRepository
  \/ \E c \in Calls : PathExistsDone(c)
  \/ \E c \in Calls : EnsureDirDone(c)
  \/ \E c \in Calls : CloneDone(c)
  \/ \E c \in Calls : CloneLogDone(c)
  \/ \E c \in Calls : RevparseDone(c)
  \/ \E c \in Calls : CheckoutDone(c)
  \/ \E c \in Calls : PullDone(c)
  \/ \E c \in Calls : PullLogDone(c)
  \/ \E c \in Calls : PullFailed(c)
  \/ \E c \in Calls : ResetDone(c)
  \/ \E c \in Calls : PullRetryDone(c)
  \/ \E c \in Calls : SyncRepoCatch(c)
  \/ SyncRepositoryDone
  \/ AddLocalKnowledge
  \/ ResolveMerge
  \/ MergeKnowledgeSources
  \/ SkipKnowledgeSource
  \/ ProcessKnowledgeSource
  \/ ScanTemplates
  \/ ProcessTemplates
  \/ ScanWorkflows
  \/ ProcessWorkflows
  \/ ScanData
  \/ ProcessData
  \/ ScanConfigs
  \/ ProcessConfigs
  \/ PostMergeProcessing
  \/ ResolveReturn

SpecResolve == InitResolve /\ [][NextResolve]_vars


\* resolveKnowledge with every awaited operation settling: a git command,
\* a file system call or a step of the merger that can go on does go on.
\* The sources of the registry have the schema's default priority.
InitResolveFair ==
  /\ syncTimestamps = EmptyMap
  /\ lockFiles = EmptyMap
  /\ cache \in SUBSET { r.local_cache : r \in Repos }
  /\ now = 1
  /\ calls = [c \in Calls |-> IdleCall]
  /\ MergeIdle
  /\ OpsIdle
  /\ \E reg \in Registries :
       /\ reg # <<>>
       /\ \A i \in DOMAIN reg : reg[i][2] = 0
       /\ federatedRepos =
            [i \in DOMAIN reg |-> RepoConfig("repo" \o ToString(i), reg[i][1], reg[i][2])]
  /\ localKnowledge \in {<<>>, LocalKnowledgeEntries}
  /\ rpc = "sources"
  /\ ridx = 1

SpecResolveFair == InitResolveFair /\ [][NextResolve]_vars /\ WF_vars(NextResolve)

(***************************************************************************)
(* GitManager.shouldSync, asked by a caller of the manager at any time.    *)
(***************************************************************************)

\* sync_policy: Joi.string().valid('daily', 'weekly', 'on_demand', 'manual');
\* a configuration that was not validated may leave it out (Null).
SyncPolicies == {"daily", "weekly", "on_demand", "manual", Null}

Hour == 60 * 60 * 1000

Day == 24 * Hour

\* The times since the last sync at which a caller asks: the elapsed times
\* of the tests (1h, 25h, 8 days), the thresholds of shouldSync and the
\* milliseconds around them.
Durations ==
  {Hour, Day - 1, Day, Day + 1, 25 * Hour, 7 * Day - 1, 7 * Day, 7 * Day + 1, 8 * Day}

\* A manager whose earlier syncs of some repositories succeeded at time 1.
InitPolicy ==
  /\ \E synced \in SUBSET LockKeys : syncTimestamps = [k \in synced |-> 1]
  /\ lockFiles = EmptyMap
  /\ cache = { r.local_cache : r \in { q \in Repos : MapHas(syncTimestamps, LockKey(q.repo, q.local_cache)) } }
  /\ now = 1
  /\ calls = [c \in Calls |-> IdleCall]
  /\ MergeIdle
  /\ ResolveIdle
  /\ OpsIdle

\* Time passes between two calls: the clock reaches a later instant, one
\* of the durations after the syncs of time 1.
Elapse ==
  /\ \E d \in Durations :
       /\ now < 1 + d
       /\ now' = 1 + d
  /\ UNCHANGED <<syncTimestamps, lockFiles, cache, calls, mergeVars, resolveVars, opsVars>>

\* shouldSync(repoName, config) is called and answers.
ShouldSyncCall ==
  /\ \E r \in Repos, policy \in SyncPolicies :
       LET config == [repo |-> r.repo, local_cache |-> r.local_cache, sync_policy |-> policy]
           lockKey == LockKey(config.repo, config.local_cache)
       IN  answer' = [sync_policy |-> policy,
                      lockKey |-> lockKey,
                      synced |-> MapHas(syncTimestamps, lockKey),
                      timeDiff |-> IF MapHas(syncTimestamps, lockKey)
                                     THEN now - syncTimestamps[lockKey]
                                     ELSE 0,
                      result |-> ShouldSync(config),
                      asked |-> TRUE]
  /\ UNCHANGED <<syncVars, mergeVars, resolveVars, forceSyncs, cleaning, batch, admin>>

NextPolicy ==
  \/ Elapse
  \/ ShouldSyncCall

SpecPolicy == InitPolicy /\ [][NextPolicy]_vars

(***************************************************************************)
(* GitManager with its three entry points: syncRepo, forceSync, cleanCache.*)
(***************************************************************************)

\* The names cleanCache is called with: the names of the repositories and
\* a registry name that no URL or cache path contains.
RepoNames == { r.name : r \in Repos } \cup {"team_alpha"}

\* text.includes(repoName) for the ':'-free pieces of the keys, which are
\* built around the repositories' names.
Includes(text, repoName) ==
  text \in { "//github.com/org/" \o repoName \o ".git",
             "org/" \o repoName \o ".git",
             "./bmad-cache/" \o repoName }

\* key.includes(repoName): a name holds no ':', so it lies in one piece.
KeyIncludes(key, repoName) == \E i \in DOMAIN key : Includes(key[i], repoName)

\* lockKey.split(':')
Split(lockKey) == lockKey

\* The timestamp of a key, 0 when there is none.
Stamp(timestamps, lockKey) ==
  IF MapHas(timestamps, lockKey) THEN timestamps[lockKey] ELSE 0

\* forceSync: syncTimestamps.delete(lockKey), then syncRepo up to its
\* first await.
ForceSyncRepo(c, repoUrl, localPath) ==
  LET lockKey == LockKey(repoUrl, localPath)
  IN  /\ syncTimestamps' = MapDelete(syncTimestamps, lockKey)
      /\ SyncRepo(c, repoUrl, localPath)
      /\ forceSyncs' = [forceSyncs EXCEPT ![c] =
                          [forced |-> TRUE, before |-> Stamp(syncTimestamps, lockKey)]]

\* A caller of the GitManager issues forceSync on one of the repositories.
ForceSync(c) ==
  /\ \E r \in Repos : ForceSyncRepo(c, r.repo, r.local_cache)
  /\ UNCHANGED <<admin, answer, cleaning, batch, mergeVars, resolveVars>>

\* cleanCache(repoName) up to its first await: find the first key of
\* syncTimestamps that includes the name (the names match one key at
\* most), take the second piece of the split key as localPath and call
\* fs.remove(path.resolve(localPath)); without a match return.
CleanCacheCall(repoName) ==
  /\ cleaning.pc \in {"idle", "done"}
  /\ LET found == { k \in DOMAIN syncTimestamps : KeyIncludes(k, repoName) }
     IN  IF found = {}
           THEN cleaning' = [NotCleaning EXCEPT !.pc = "done", !.repoName = repoName]
           ELSE LET lockKey == CHOOSE k \in found : TRUE
                IN  cleaning' = [pc |-> "remove", repoName |-> repoName, lockKey |-> lockKey,
                                 localPath |-> Split(lockKey)[2], error |-> FALSE]

\* A caller of the GitManager issues cleanCache with a name.
CleanCache(repoName) ==
  /\ CleanCacheCall(repoName)
  /\ UNCHANGED <<syncVars, admin, answer, forceSyncs, batch, mergeVars, resolveVars>>

\* await fs.remove(path.resolve(localPath)) resolved:
\* syncTimestamps.delete(lockKey).
CleanCacheRemoved ==
  /\ cleaning.pc = "remove"
  /\ cache' = cache \ {<<cleaning.localPath>>}
  /\ syncTimestamps' = MapDelete(syncTimestamps, cleaning.lockKey)
  /\ cleaning' = [cleaning EXCEPT !.pc = "done"]
  /\ UNCHANGED <<lockFiles, now, calls, admin, answer, forceSyncs, batch, mergeVars, resolveVars>>

\* cleanCache() without a name up to its first await:
\* fs.remove(this.options.cacheDir).
CleanCacheAll ==
  /\ cleaning.pc \in {"idle", "done"}
  /\ cleaning' = [NotCleaning EXCEPT !.pc = "removeAll"]
  /\ UNCHANGED <<syncVars, admin, answer, forceSyncs, batch, mergeVars, resolveVars>>

\* await fs.remove(cacheDir) resolved: every cache below ./bmad-cache is
\* gone; await fs.ensureDir(cacheDir).
CleanCacheAllRemoved ==
  /\ cleaning.pc = "removeAll"
  /\ cache' = {}
  /\ cleaning' = [cleaning EXCEPT !.pc = "ensureDir"]
  /\ UNCHANGED <<syncTimestamps, lockFiles, now, calls, admin, answer, forceSyncs, batch,
                 mergeVars, resolveVars>>

\* await fs.ensureDir(cacheDir) resolved: syncTimestamps.clear().
CleanCacheAllDone ==
  /\ cleaning.pc = "ensureDir"
  /\ syncTimestamps' = EmptyMap
  /\ cleaning' = [cleaning EXCEPT !.pc = "done"]
  /\ UNCHANGED <<lockFiles, cache, now, calls, admin, answer, forceSyncs, batch, mergeVars, resolveVars>>

\* cleanCache's catch: fs.remove or fs.ensureDir rejected; log and throw.
CleanCacheFailed ==
  /\ cleaning.pc \in {"remove", "removeAll", "ensureDir"}
  /\ cleaning' = [cleaning EXCEPT !.pc = "done", !.error = TRUE]
  /\ UNCHANGED <<syncVars, admin, answer, forceSyncs, batch, mergeVars, resolveVars>>

NextForce ==
  \/ Tick
  \/ \E c \in Calls : SyncRepoStart(c)
  \/ \E c \in Calls : ForceSync(c)
  \/ \E c \in Calls : PathExistsDone(c)
  \/ \E c \in Calls : EnsureDirDone(c)
  \/ \E c \in Calls : CloneDone(c)
  \/ \E c \in Calls : CloneLogDone(c)
  \/ \E c \in Calls : RevparseDone(c)
  \/ \E c \in Calls : CheckoutDone(c)
  \/ \E c \in Calls : PullDone(c)
  \/ \E c \in Calls : PullLogDone(c)
  \/ \E c \in Calls : PullFailed(c)
  \/ \E c \in Calls : ResetDone(c)
  \/ \E c \in Calls : PullRetryDone(c)
  \/ \E c \in Calls : SyncRepoCatch(c)

\* Callers that sync and force syncs.
SpecForce == InitSync /\ [][NextForce]_vars

NextClean ==
  \/ \E repoName \in RepoNames : CleanCache(repoName)
  \/ CleanCacheRemoved
  \/ CleanCacheAll
  \/ CleanCacheAllRemoved
  \/ CleanCacheAllDone
  \/ CleanCacheFailed

\* A manager whose earlier syncs of some repositories succeeded at time 1;
\* a cache directory may be there from an earlier process, or may have
\* been deleted by hand since.
InitClean ==
  /\ \E synced \in SUBSET LockKeys : syncTimestamps = [k \in synced |-> 1]
  /\ lockFiles = EmptyMap
  /\ cache \in SUBSET { r.local_cache : r \in Repos }
  /\ now = 1
  /\ calls = [c \in Calls |-> IdleCall]
  /\ MergeIdle
  /\ ResolveIdle
  /\ OpsIdle

\* Callers that clean the cache of a manager that has synced.
SpecClean == InitClean /\ [][NextClean]_vars

(***************************************************************************)
(* FederatedDependencyResolver.syncAllRepositories.                        *)
(***************************************************************************)

\* One async function of the loop, before it is called.
IdleTask == [pc |-> "idle", status |-> Null]

\* A resolver initialized from a configuration of sources with the default
\* priority, whose manager synced some of them at time 1, and
\* options.parallelSync as the constructor was given it.
InitBatch ==
  /\ \E synced \in SUBSET LockKeys : syncTimestamps = [k \in synced |-> 1]
  /\ lockFiles = EmptyMap
  /\ cache \in SUBSET { r.local_cache : r \in Repos }
  /\ now = 1
  /\ calls = [c \in Calls |-> IdleCall]
  /\ MergeIdle
  /\ \E reg \in Registries :
       /\ \A i \in DOMAIN reg : reg[i][2] = 0
       /\ federatedRepos =
            [i \in DOMAIN reg |-> RepoConfig("repo" \o ToString(i), reg[i][1], reg[i][2])]
  /\ localKnowledge = <<>>
  /\ rpc = "sources"
  /\ ridx = 1
  /\ answer = NoAnswer
  /\ forceSyncs = [c \in 1..MaxCalls |-> NotForced]
  /\ cleaning = NotCleaning
  /\ admin = NoAdmin
  /\ \E parallelSync \in BOOLEAN : batch = [NoBatch EXCEPT !.parallelSync = parallelSync]

\* syncAllRepositories(force) up to its for loop: results = {},
\* syncPromises = [].
SyncAllRepositories(force) ==
  /\ batch.pc = "off"
  /\ batch' = [batch EXCEPT !.pc = "loop", !.force = force, !.i = 1,
                            !.tasks = [i \in DOMAIN federatedRepos |-> IdleTask]]
  /\ UNCHANGED <<syncVars, mergeVars, resolveVars, admin, answer, forceSyncs, cleaning>>

\* The loop starting later iterations whatever became of the earlier ones.
MayStartAlways(i) == TRUE

\* The loop reaches its i-th iteration with every earlier promise pushed,
\* or awaited: `if (parallelSync) syncPromises.push(syncPromise) else await
\* syncPromise`.
MayStart(i) ==
  batch.parallelSync \/ \A j \in 1..(i - 1) : batch.tasks[j].pc = "done"

\* The i-th iteration: the async function runs up to its first await.
\* Forced, that is gitManager.forceSync.  Otherwise it is syncRepository: a
\* sync that is not needed returns skipped and one that is marked returns
\* in_progress (the finally block clears the mark in both cases); else the
\* entry is marked and gitManager.syncRepo is called.
StartTask(i) ==
  /\ batch.pc = "loop"
  /\ batch.i = i
  /\ i <= Len(federatedRepos)
  /\ MayStart(i)
  /\ LET config == federatedRepos[i]
     IN  IF batch.force
           THEN /\ ForceSyncRepo(i, config.repo, config.local_cache)
                /\ batch' = [batch EXCEPT !.i = i + 1, !.tasks[i].pc = "syncing"]
                /\ UNCHANGED federatedRepos
           ELSE IF ~ShouldSync(config) \/ config.syncInProgress
             THEN /\ federatedRepos' = [federatedRepos EXCEPT ![i].syncInProgress = FALSE]
                  /\ batch' = [batch EXCEPT
                                 !.i = i + 1,
                                 !.tasks[i] = [pc |-> "returned",
                                               status |-> IF ~ShouldSync(config)
                                                            THEN "skipped"
                                                            ELSE "in_progress"]]
                  /\ UNCHANGED <<syncVars, forceSyncs>>
             ELSE /\ federatedRepos' = [federatedRepos EXCEPT ![i].syncInProgress = TRUE]
                  /\ SyncRepo(i, config.repo, config.local_cache)
                  /\ batch' = [batch EXCEPT !.i = i + 1, !.tasks[i].pc = "syncing"]
                  /\ UNCHANGED <<syncTimestamps, forceSyncs>>
  /\ UNCHANGED <<mergeVars, localKnowledge, rpc, ridx, admin, answer, cleaning>>

\* {status: 'success', ...result}: the status of the result, when it has
\* one, replaces 'success'.
ResultStatus(result) == IF result.status # Null THEN result.status ELSE "success"

\* The function of the i-th iteration resumes with the result of a
\* syncRepository that returned before its await:
\* results[name] = {status: 'success', ...result}.
TaskReturned(i) ==
  /\ batch.pc = "loop"
  /\ i \in DOMAIN batch.tasks
  /\ batch.tasks[i].pc = "returned"
  /\ batch' = [batch EXCEPT
                 !.tasks[i].pc = "done",
                 !.results = MapSet(@, federatedRepos[i].name,
                                    ResultStatus([status |-> batch.tasks[i].status]))]
  /\ UNCHANGED <<syncVars, mergeVars, resolveVars, admin, answer, forceSyncs, cleaning>>

\* gitManager.syncRepo returned `result` to the i-th iteration.  Not forced,
\* syncRepository sets config.lastSync = Date.now() and config.status =
\* result.status and its finally block clears the mark.  Then
\* results[name] = {status: 'success', ...result}.
TaskSynced(i) ==
  /\ batch.pc = "loop"
  /\ i \in DOMAIN batch.tasks
  /\ batch.tasks[i].pc = "syncing"
  /\ calls[i].pc = "done"
  /\ federatedRepos' =
       IF batch.force
         THEN federatedRepos
         ELSE [federatedRepos EXCEPT ![i].lastSync = now,
                                     ![i].status = calls[i].result.status,
                                     ![i].syncInProgress = FALSE]
  /\ batch' = [batch EXCEPT
                 !.tasks[i] = [pc |-> "done", status |-> calls[i].result.status],
                 !.results = MapSet(@, federatedRepos[i].name,
                                    ResultStatus(calls[i].result))]
  /\ UNCHANGED <<syncVars, mergeVars, localKnowledge, rpc, ridx, admin, answer, forceSyncs,
                 cleaning>>

\* A wait that ends with the first function that stored an error.
AwaitedUntilError ==
  /\ batch.i > Len(federatedRepos)
  /\ \/ \A i \in DOMAIN batch.tasks : batch.tasks[i].pc = "done"
     \/ \E i \in DOMAIN batch.tasks :
          batch.tasks[i].pc = "done" /\ batch.tasks[i].status = "error"

\* The loop is over and, in parallel mode, Promise.all(syncPromises) has
\* resolved: every function has run to its end (none of them rejects).
Awaited ==
  /\ batch.i > Len(federatedRepos)
  /\ \A i \in DOMAIN batch.tasks : batch.tasks[i].pc = "done"

\* Counts in which every entry that is not an error is a success.
CountStatusOrRest(results, status) ==
  Cardinality({ name \in DOMAIN results :
                  IF status = "success" THEN results[name] # "error"
                                        ELSE results[name] = status })

\* Object.values(results).filter(r => r.status === status).length
CountStatus(results, status) ==
  Cardinality({ name \in DOMAIN results : results[name] = status })

\* The tail of syncAllRepositories: successCount, errorCount and the
\* returned {summary, results, timestamp}.
SyncAllReturn ==
  /\ batch.pc = "loop"
  /\ Awaited
  /\ batch' = [batch EXCEPT
                 !.pc = "done",
                 !.summary = [total |-> Len(federatedRepos),
                              successful |-> CountStatus(batch.results, "success"),
                              failed |-> CountStatus(batch.results, "error"),
                              forced |-> batch.force]]
  /\ UNCHANGED <<syncVars, mergeVars, resolveVars, admin, answer, forceSyncs, cleaning>>

\* The for loop of parallel mode is running: it has no await, so nothing
\* else runs before its last iteration.
Looping ==
  batch.pc = "loop" /\ batch.parallelSync /\ batch.i <= Len(federatedRepos)

\* The call slot of the caller that uses the manager next to the batch; the
\* i-th iteration of the loop has slot i.
OtherCalls == { c \in Calls : c > Cardinality(Repos) }

NextBatch ==
  \/ \E force \in BOOLEAN : SyncAllRepositories(force)
  \/ \E i \in Calls : StartTask(i)
  \/ ~Looping /\ \E i \in Calls : TaskReturned(i)
  \/ ~Looping /\ \E i \in Calls : TaskSynced(i)
  \/ ~Looping /\ SyncAllReturn
  \/ ~Looping /\ \E c \in OtherCalls : SyncRepoStart(c)
  \/ ~Looping /\ \E c \in Calls : PathExistsDone(c)
  \/ ~Looping /\ \E c \in Calls : EnsureDirDone(c)
  \/ ~Looping /\ \E c \in Calls : CloneDone(c)
  \/ ~Looping /\ \E c \in Calls : CloneLogDone(c)
  \/ ~Looping /\ \E c \in Calls : RevparseDone(c)
  \/ ~Looping /\ \E c \in Calls : CheckoutDone(c)
  \/ ~Looping /\ \E c \in Calls : PullDone(c)
  \/ ~Looping /\ \E c \in Calls : PullLogDone(c)
  \/ ~Looping /\ \E c \in Calls : PullFailed(c)
  \/ ~Looping /\ \E c \in Calls : ResetDone(c)
  \/ ~Looping /\ \E c \in Calls : PullRetryDone(c)
  \/ ~Looping /\ \E c \in Calls : SyncRepoCatch(c)

\* One syncAllRepositories next to other users of the manager.
SpecBatch == InitBatch /\ [][NextBatch]_vars

(***************************************************************************)
(* FederatedDependencyResolver.addRepository and removeRepository.         *)
(***************************************************************************)

\* The names in the registry, a Map kept in insertion order.
RegistryNames == { federatedRepos[i].name : i \in DOMAIN federatedRepos }

\* this.federatedRepos.get(name), for a name the registry has.
RegistryGet(name) ==
  federatedRepos[CHOOSE i \in DOMAIN federatedRepos : federatedRepos[i].name = name]

\* this.federatedRepos.set(name, config): a known name keeps its place.
RegistrySet(name, config) ==
  IF name \in RegistryNames
    THEN [i \in DOMAIN federatedRepos |->
            IF federatedRepos[i].name = name THEN config ELSE federatedRepos[i]]
    ELSE Append(federatedRepos, config)

\* this.federatedRepos.delete(name)
RegistryDelete(name) ==
  LET Others(config) == config.name # name
  IN  SelectSeq(federatedRepos, Others)

\* No addRepository or removeRepository is running.
AdminQuiet == admin.pc \in {"idle", "added", "removed", "failed"}

\* addRepository(name, config) with a configuration the schema accepts, up
\* to `await this.saveConfiguration()`: the registry entry with status
\* 'added' and the default priority, and the entry of the document.
AddRepository(name, r) ==
  /\ AdminQuiet
  /\ federatedRepos' = RegistrySet(name, [RepoConfig(name, r, 0) EXCEPT !.status = "added"])
  /\ admin' = [admin EXCEPT !.pc = "addSave", !.name = name, !.repo = r,
                            !.document = @ \cup {name}, !.lastStatus = Null,
                            !.error = FALSE]
  /\ UNCHANGED <<syncVars, mergeVars, localKnowledge, rpc, ridx, answer, forceSyncs,
                 cleaning, batch>>

\* saveConfiguration resolved in addRepository: the initial sync,
\* syncRepository(name, this.federatedRepos.get(name)) up to its first
\* await.
AddSaved ==
  /\ admin.pc = "addSave"
  /\ LET config == RegistryGet(admin.name)
     IN  IF ~ShouldSync(config) \/ config.syncInProgress
           THEN /\ federatedRepos' =
                     RegistrySet(admin.name, [config EXCEPT !.syncInProgress = FALSE])
                /\ admin' = [admin EXCEPT !.pc = "added", !.saved = admin.document]
                /\ UNCHANGED syncVars
           ELSE /\ federatedRepos' =
                     RegistrySet(admin.name, [config EXCEPT !.syncInProgress = TRUE])
                /\ SyncRepo(1, config.repo, config.local_cache)
                /\ admin' = [admin EXCEPT !.pc = "addSync", !.saved = admin.document]
                /\ UNCHANGED syncTimestamps
  /\ UNCHANGED <<mergeVars, localKnowledge, rpc, ridx, answer, forceSyncs, cleaning, batch>>

\* saveConfiguration rejected: addRepository and removeRepository log and
\* throw; the registry and the document keep the change.
SaveFailed ==
  /\ admin.pc \in {"addSave", "removeSave"}
  /\ admin' = [admin EXCEPT !.pc = "failed", !.error = TRUE]
  /\ UNCHANGED <<syncVars, mergeVars, resolveVars, answer, forceSyncs, cleaning, batch>>

\* gitManager.syncRepo returned `result` to the initial sync:
\* config.lastSync = Date.now(), config.status = result.status, finally
\* syncInProgress = false; addRepository returns.
AddSynced ==
  /\ admin.pc = "addSync"
  /\ calls[1].pc = "done"
  /\ federatedRepos' =
       RegistrySet(admin.name, [RegistryGet(admin.name) EXCEPT
                                  !.lastSync = now,
                                  !.status = calls[1].result.status,
                                  !.syncInProgress = FALSE])
  /\ calls' = [calls EXCEPT ![1] = IdleCall]
  /\ admin' = [admin EXCEPT !.pc = "added"]
  /\ UNCHANGED <<syncTimestamps, lockFiles, cache, now, mergeVars, localKnowledge, rpc,
                 ridx, answer, forceSyncs, cleaning, batch>>

\* removeRepository(name) up to `await this.saveConfiguration()`: an
\* unknown name throws; otherwise the entries of the registry and of the
\* document are deleted.
RemoveRepository(name) ==
  /\ AdminQuiet
  /\ IF name \notin RegistryNames
       THEN /\ admin' = [admin EXCEPT !.pc = "failed", !.name = name, !.repo = Null,
                                      !.lastStatus = Null, !.error = TRUE]
            /\ UNCHANGED federatedRepos
       ELSE /\ federatedRepos' = RegistryDelete(name)
            /\ admin' = [admin EXCEPT !.pc = "removeSave", !.name = name,
                                      !.repo = RegistryGet(name),
                                      !.document = @ \ {name},
                                      !.lastStatus = RegistryGet(name).status,
                                      !.error = FALSE]
  /\ UNCHANGED <<syncVars, mergeVars, localKnowledge, rpc, ridx, answer, forceSyncs,
                 cleaning, batch>>

\* saveConfiguration resolved in removeRepository:
\* gitManager.cleanCache(name) up to its first await.
RemoveSaved ==
  /\ admin.pc = "removeSave"
  /\ admin' = [admin EXCEPT !.pc = "removeClean", !.saved = admin.document]
  /\ CleanCacheCall(admin.name)
  /\ UNCHANGED <<syncVars, mergeVars, resolveVars, answer, forceSyncs, batch>>

\* cleanCache returned, or threw, to removeRepository.
RemoveDone ==
  /\ admin.pc = "removeClean"
  /\ cleaning.pc = "done"
  /\ admin' = [admin EXCEPT !.pc = IF cleaning.error THEN "failed" ELSE "removed",
                            !.error = cleaning.error]
  /\ UNCHANGED <<syncVars, mergeVars, resolveVars, answer, forceSyncs, cleaning, batch>>

NextRoundTrip ==
  \/ \E name \in RepoNames, r \in Repos : AddRepository(name, r)
  \/ AddSaved
  \/ SaveFailed
  \/ AddSynced
  \/ \E name \in RepoNames : RemoveRepository(name)
  \/ RemoveSaved
  \/ RemoveDone
  \/ CleanCacheRemoved
  \/ CleanCacheFailed
  \/ \E c \in Calls : PathExistsDone(c)
  \/ \E c \in Calls : EnsureDirDone(c)
  \/ \E c \in Calls : CloneDone(c)
  \/ \E c \in Calls : CloneLogDone(c)
  \/ \E c \in Calls : RevparseDone(c)
  \/ \E c \in Calls : CheckoutDone(c)
  \/ \E c \in Calls : PullDone(c)
  \/ \E c \in Calls : PullLogDone(c)
  \/ \E c \in Calls : PullFailed(c)
  \/ \E c \in Calls : ResetDone(c)
  \/ \E c \in Calls : PullRetryDone(c)
  \/ \E c \in Calls : SyncRepoCatch(c)

\* A resolver with an empty registry to which repositories are added and
\* from which they are removed.
SpecRoundTrip == InitSync /\ [][NextRoundTrip]_vars

(***************************************************************************)
(* FederatedDependencyResolver.syncRepository called by several callers at *)
(* once (resolveKnowledge next to syncAllRepositories, two resolutions).   *)
(***************************************************************************)

\* A resolver of a fresh process, initialized from a configuration of at
\* least one source with the default priority.
InitOverlap ==
  /\ syncTimestamps = EmptyMap
  /\ lockFiles = EmptyMap
  /\ cache \in SUBSET { r.local_cache : r \in Repos }
  /\ now = 1
  /\ calls = [c \in Calls |-> IdleCall]
  /\ MergeIdle
  /\ OpsIdle
  /\ \E reg \in Registries :
       /\ reg # <<>>
       /\ \A i \in DOMAIN reg : reg[i][2] = 0
       /\ federatedRepos =
            [i \in DOMAIN reg |-> RepoConfig("repo" \o ToString(i), reg[i][1], reg[i][2])]
  /\ localKnowledge = <<>>
  /\ rpc = "off"
  /\ ridx = 0

\* The registry entry whose key a call of the manager works on.
EntryOf(c) ==
  CHOOSE i \in DOMAIN federatedRepos :
    LockKey(federatedRepos[i].repo, federatedRepos[i].local_cache) = KeyOf(c)

\* Caller c calls syncRepository(name, config) for the i-th entry; the call
\* runs up to its first await.  A sync that is not needed returns skipped
\* and one that is marked returns in_progress, and the finally block sets
\* config.syncInProgress = false for both; otherwise the entry is marked
\* and gitManager.syncRepo is called.
SyncRepositoryCall(c, i) ==
  /\ i \in DOMAIN federatedRepos
  /\ calls[c].pc = "idle"
  /\ LET config == federatedRepos[i]
     IN  IF ~ShouldSync(config) \/ config.syncInProgress
           THEN /\ federatedRepos' = [federatedRepos EXCEPT ![i].syncInProgress = FALSE]
                /\ UNCHANGED <<lockFiles, cache, now, calls>>
           ELSE /\ federatedRepos' = [federatedRepos EXCEPT ![i].syncInProgress = TRUE]
                /\ SyncRepo(c, config.repo, config.local_cache)
  /\ UNCHANGED <<syncTimestamps, localKnowledge, rpc, ridx, mergeVars, opsVars>>

\* gitManager.syncRepo returned `result` to caller c: config.lastSync =
\* Date.now(), config.status = result.status, and the finally block clears
\* the mark.
SyncRepositoryReturn(c) ==
  /\ calls[c].pc = "done"
  /\ federatedRepos' = [federatedRepos EXCEPT ![EntryOf(c)].lastSync = now,
                                              ![EntryOf(c)].status = calls[c].result.status,
                                              ![EntryOf(c)].syncInProgress = FALSE]
  /\ calls' = [calls EXCEPT ![c] = IdleCall]
  /\ UNCHANGED <<syncTimestamps, lockFiles, cache, now, localKnowledge, rpc, ridx,
                 mergeVars, opsVars>>

\* The call slots of the two callers of syncRepository.
Callers == 1..2

NextOverlap ==
  \/ \E c \in Callers, i \in 1..Cardinality(Repos) : SyncRepositoryCall(c, i)
  \/ \E c \in Callers : SyncRepositoryReturn(c)
  \/ \E c \in Calls : PathExistsDone(c)
  \/ \E c \in Calls : EnsureDirDone(c)
  \/ \E c \in Calls : CloneDone(c)
  \/ \E c \in Calls : CloneLogDone(c)
  \/ \E c \in Calls : RevparseDone(c)
  \/ \E c \in Calls : CheckoutDone(c)
  \/ \E c \in Calls : PullDone(c)
  \/ \E c \in Calls : PullLogDone(c)
  \/ \E c \in Calls : PullFailed(c)
  \/ \E c \in Calls : ResetDone(c)
  \/ \E c \in Calls : PullRetryDone(c)
  \/ \E c \in Calls : SyncRepoCatch(c)

SpecOverlap == InitOverlap /\ [][NextOverlap]_vars

(***************************************************************************)
(* GitManager.cleanCache next to syncRepo calls that race with it.         *)
(***************************************************************************)

\* A caller of the GitManager issues syncRepo before the cleanCache call
\* has returned.
SyncRepoRacing(c) ==
  /\ cleaning.pc # "done"
  /\ SyncRepoStart(c)

NextCleanSync ==
  \/ \E repoName \in RepoNames : CleanCache(repoName)
  \/ CleanCacheRemoved
  \/ CleanCacheAll
  \/ CleanCacheAllRemoved
  \/ CleanCacheAllDone
  \/ CleanCacheFailed
  \/ \E c \in Callers : SyncRepoRacing(c)
  \/ \E c \in Calls : PathExistsDone(c)
  \/ \E c \in Calls : EnsureDirDone(c)
  \/ \E c \in Calls : CloneDone(c)
  \/ \E c \in Calls : CloneLogDone(c)
  \/ \E c \in Calls : RevparseDone(c)
  \/ \E c \in Calls : CheckoutDone(c)
  \/ \E c \in Calls : PullDone(c)
  \/ \E c \in Calls : PullLogDone(c)
  \/ \E c \in Calls : PullFailed(c)
  \/ \E c \in Calls : ResetDone(c)
  \/ \E c \in Calls : PullRetryDone(c)
  \/ \E c \in Calls : SyncRepoCatch(c)

\* A manager that has synced, whose cache is cleaned while syncs run.
SpecCleanSync == InitClean /\ [][NextCleanSync]_vars

(***************************************************************************)
(* Claims about GitManager.syncRepo, checked under SpecSync.               *)
(***************************************************************************)

\* C1: mutual exclusion of syncRepo: in every reachable state, for every
\* lock key, at most one syncRepo call is past the lock check and working
\* on that key.
C1_MutualExclusion ==
  \A k \in LockKeys : Cardinality(InFlightOn(k)) <= 1

\* The calls issued concurrently with call c0 on its key: c0 found no call
\* of that key running, and each of the others was issued while c0 ran.
ConcurrentWith(c0) ==
  {c0} \cup { c \in Calls : calls[c].pc # "idle" /\ c0 \in calls[c].inFlightAtStart }

\* C2: of N >= 2 syncRepo calls on one key issued concurrently (all started
\* before the first one finishes), exactly one returns success or error and
\* every other one returns in_progress.
C2_ExactlyOneCompletes ==
  \A c0 \in Calls :
    ( /\ calls[c0].pc = "done"
      /\ calls[c0].inFlightAtStart = {}
      /\ Cardinality(ConcurrentWith(c0)) >= 2
      /\ \A c \in ConcurrentWith(c0) : calls[c].pc = "done" )
    => /\ Cardinality({ c \in ConcurrentWith(c0) :
                          calls[c].result.status \in {"success", "error"} }) = 1
       /\ \A c \in ConcurrentWith(c0) :
            calls[c].result.status \in {"success", "error", "in_progress"}

\* C3: the lock is never leaked: whenever no syncRepo call on a key is
\* running, lockFiles has no entry for the key, and a call that was issued
\* when no call on its key was running is never answered in_progress.
C3_LockNeverLeaked ==
  /\ \A k \in LockKeys : InFlightOn(k) = {} => ~MapHas(lockFiles, k)
  /\ \A c \in Calls :
       (calls[c].pc = "done" /\ calls[c].inFlightAtStart = {})
         => calls[c].result.status \in {"success", "error"}

\* A call issued after earlier calls on its key had returned, one of them
\* with an error, has itself returned success or error, and the lock table
\* is empty.
C3_Witness ==
  \E c \in Calls :
    /\ calls[c].pc = "done"
    /\ calls[c].inFlightAtStart = {}
    /\ \E d \in calls[c].returnedAtStart : calls[d].result.status = "error"
    /\ \E d \in calls[c].returnedAtStart : calls[d].result.status = "in_progress"
    /\ calls[c].result.status = "success"
    /\ lockFiles = EmptyMap

\* C10: a step of a syncRepo call changes syncTimestamps only when it is
\* the return of a success (clone, pull or reset_and_pull), and then only
\* the entry of the call's own key; a call that returns error or
\* in_progress, and every intermediate step, leaves the table as it was.
C10_TimestampOnlyOnSuccess ==
  [][ \A c \in Calls :
        calls'[c] # calls[c] =>
          IF calls'[c].pc = "done" /\ calls'[c].result.status = "success"
            THEN /\ calls'[c].result.operation \in {"clone", "pull", "reset_and_pull"}
                 /\ \A k \in (DOMAIN syncTimestamps \cup DOMAIN syncTimestamps') \ {KeyOf(c)} :
                      /\ k \in DOMAIN syncTimestamps
                      /\ k \in DOMAIN syncTimestamps'
                      /\ syncTimestamps'[k] = syncTimestamps[k]
            ELSE syncTimestamps' = syncTimestamps ]_vars

\* A key was synced at time 1; later calls on it returned error and
\* in_progress at a later time, and its timestamp is still 1.
C10_Witness ==
  \E c, d \in Calls :
    /\ calls[c].pc = "done" /\ calls[c].result.status = "error"
    /\ calls[d].pc = "done" /\ calls[d].result.status = "in_progress"
    /\ KeyOf(c) = KeyOf(d)
    /\ calls[c].returnedAtStart # {}
    /\ MapHas(syncTimestamps, KeyOf(c))
    /\ syncTimestamps[KeyOf(c)] = 1
    /\ now > 1

(***************************************************************************)
(* Claims about KnowledgeMerger, checked under SpecMerge.                  *)
(***************************************************************************)

\* The conflict type handleConflict is called with for a category.
TypeOf(category) ==
  CASE category = "templates" -> "template"
    [] category = "workflows" -> "workflow"
    [] category = "configs" -> "config"
    [] OTHER -> "data"

Categories == {"templates", "workflows", "data", "configs"}

\* The keys of `category` that artifacts were folded for.
KeysOf(category) ==
  { folded[n].key : n \in { m \in DOMAIN folded : folded[m].category = category } }

\* The folds of artifacts with key `key` of `category`, in processing order.
FoldsOf(category, key) ==
  { n \in DOMAIN folded : folded[n].category = category /\ folded[n].key = key }

\* The conflict records of `key` of `category`, in ledger order.
ConflictsOf(category, key) ==
  SelectSeq(mergedKnowledge.conflicts,
            LAMBDA c : c.type = TypeOf(category) /\ c.key = key)

\* The source that folded artifact n.
SourceOf(n) == sortedSources[folded[n].pos]

\* The position in the list passed to the merger of a source of the sorted list.
InputIndex(source) == CHOOSE i \in DOMAIN knowledgeSources : knowledgeSources[i] = source

Merged == mpc = "done"

\* C4: under the `priority` strategy, after mergeKnowledgeSources every key
\* of templates, workflows and configs holds the content, origin and
\* priority of a source of maximal priority among the processed sources
\* that define the key: the first artifact of the first such source in the
\* sorted order, which is also the first such source of the input.
C4_MaxPriorityWins ==
  (Merged /\ conflictResolution = "priority") =>
    \A category \in {"templates", "workflows", "configs"} :
      /\ KeysOf(category) = DOMAIN mergedKnowledge[category]
      /\ \A key \in DOMAIN mergedKnowledge[category] :
           LET folds == FoldsOf(category, key)
               top == { n \in folds :
                          \A m \in folds : SourceOf(m).priority <= SourceOf(n).priority }
               winner == CHOOSE n \in top : \A m \in top : n <= m
               entry == mergedKnowledge[category][key]
           IN  /\ entry.content = folded[winner].content
               /\ entry.source = Origin(SourceOf(winner))
               /\ entry.priority = SourceOf(winner).priority
               /\ \A m \in top : InputIndex(SourceOf(winner)) <= InputIndex(SourceOf(m))

\* Three sources gave one key of templates, workflows or configs: passed
\* first a source of lower priority, then two sources of the same higher
\* priority; the merge is done and the key has the entry of the second.
C4_Witness ==
  /\ Merged /\ conflictResolution = "priority"
  /\ \E category \in {"templates", "workflows", "configs"} :
       \E key \in DOMAIN mergedKnowledge[category] :
         \E n, m, l \in FoldsOf(category, key) :
           /\ SourceOf(n).priority = SourceOf(m).priority
           /\ SourceOf(l).priority < SourceOf(n).priority
           /\ InputIndex(SourceOf(l)) < InputIndex(SourceOf(n))
           /\ InputIndex(SourceOf(n)) < InputIndex(SourceOf(m))
           /\ mergedKnowledge[category][key].source = Origin(SourceOf(n))

\* The merge, under the `priority` strategy, of exactly two existing
\* sources that each define key `key` of `category` once, is done.
TwoSourcesOneKey(category, key) ==
  /\ Merged /\ conflictResolution = "priority"
  /\ Len(knowledgeSources) = 2
  /\ Len(mergedKnowledge.sources) = 2
  /\ Cardinality(FoldsOf(category, key)) = 2
  /\ { InputIndex(SourceOf(n)) : n \in FoldsOf(category, key) } = {1, 2}

\* The artifact of `key` of `category` of the source passed at `i`.
FoldOfInput(category, key, i) ==
  CHOOSE n \in FoldsOf(category, key) : InputIndex(SourceOf(n)) = i

\* The tree holds for the key the artifact of the source passed at `i`.
HoldsInput(category, key, i) ==
  LET entry == mergedKnowledge[category][key]
  IN  /\ entry.content = folded[FoldOfInput(category, key, i)].content
      /\ entry.source = Origin(knowledgeSources[i])
      /\ entry.priority = knowledgeSources[i].priority

\* The ledger has exactly one record of the key, with this resolution.
OneRecord(category, key, resolution) ==
  LET records == ConflictsOf(category, key)
  IN  Len(records) = 1 /\ records[1].resolution = resolution

\* A (lower priority) was passed before B (higher priority).
LowThenHigh == knowledgeSources[1].priority < knowledgeSources[2].priority

\* A (higher priority) was passed before B (lower priority).
HighThenLow == knowledgeSources[1].priority > knowledgeSources[2].priority

\* C6 as stated: merging A (lower priority) then B (higher priority) that
\* both define key k, under the `priority` strategy, yields B's content for
\* k and exactly one conflict record for k, whose resolution is `replace`.
C6_Original ==
  \A category \in {"templates", "workflows", "configs"} :
    \A key \in KeysOf(category) :
      (TwoSourcesOneKey(category, key) /\ LowThenHigh)
        => HoldsInput(category, key, 2) /\ OneRecord(category, key, "replace")

\* C6 as amended: merging A (lower priority) then B (higher priority) that
\* both define key k, under the `priority` strategy, yields B's content for
\* k and exactly one conflict record for k, whose resolution is `keep`: B
\* is processed first and A's artifact is the incoming one.
C6_LowThenHighKeeps ==
  \A category \in {"templates", "workflows", "configs"} :
    \A key \in KeysOf(category) :
      (TwoSourcesOneKey(category, key) /\ LowThenHigh)
        => /\ HoldsInput(category, key, 2)
           /\ OneRecord(category, key, "keep")
           /\ ConflictsOf(category, key)[1].existing.source = Origin(knowledgeSources[2])
           /\ ConflictsOf(category, key)[1].incoming.source = Origin(knowledgeSources[1])

\* A of priority 1 then B of priority 999 both gave a template key.
C6_Witness ==
  \E key \in KeysOf("templates") :
    /\ TwoSourcesOneKey("templates", key)
    /\ knowledgeSources[1].priority = 1
    /\ knowledgeSources[2].priority = 999

\* C7: merging A (higher priority) then B (lower priority) that both
\* define key k, under the `priority` strategy, retains A's content for k
\* and records exactly one conflict record for k, whose resolution is `keep`.
C7_HighThenLowKeeps ==
  \A category \in {"templates", "workflows", "configs"} :
    \A key \in KeysOf(category) :
      (TwoSourcesOneKey(category, key) /\ HighThenLow)
        => HoldsInput(category, key, 1) /\ OneRecord(category, key, "keep")

\* A of priority 999 then B of priority 1 both gave a config key.
C7_Witness ==
  \E key \in KeysOf("configs") :
    /\ TwoSourcesOneKey("configs", key)
    /\ knowledgeSources[1].priority = 999
    /\ knowledgeSources[2].priority = 1

\* The merge, under the `priority` strategy, of three existing sources with
\* priorities 0, 1 and 999, passed in any order, that each define template
\* key `key` once, is done.
ThreeSourcesOneKey(key) ==
  /\ Merged /\ conflictResolution = "priority"
  /\ Len(knowledgeSources) = 3
  /\ { knowledgeSources[i].priority : i \in 1..3 } = {0, 1, 999}
  /\ Cardinality(FoldsOf("templates", key)) = 3
  /\ { folded[n].pos : n \in FoldsOf("templates", key) } = {1, 2, 3}
  /\ Cardinality({ folded[n].content : n \in FoldsOf("templates", key) }) = 3

\* The template key has the entry of the priority-999 source, and the ledger
\* exactly two records, of the sources of priority 1 and 0 in this order
\* (the order they were processed in), both with resolution `resolution`.
TopWinsWithTwoRecords(key, resolution) ==
  LET entry == mergedKnowledge.templates[key]
      top == CHOOSE n \in FoldsOf("templates", key) : SourceOf(n).priority = 999
  IN  /\ entry.content = folded[top].content
      /\ entry.source = Origin(SourceOf(top))
      /\ Len(mergedKnowledge.conflicts) = 2
      /\ \A r \in 1..2 :
           /\ mergedKnowledge.conflicts[r].type = "template"
           /\ mergedKnowledge.conflicts[r].key = key
           /\ mergedKnowledge.conflicts[r].resolution = resolution
      /\ mergedKnowledge.conflicts[1].incoming.priority = 1
      /\ mergedKnowledge.conflicts[2].incoming.priority = 0

\* C8 as stated: three sources with priorities 0, 1 and 999 that each
\* define the same template key yield the priority-999 source's content and
\* a ledger of exactly two records, both `replace`, in processing order.
C8_Original ==
  \A key \in KeysOf("templates") :
    ThreeSourcesOneKey(key) => TopWinsWithTwoRecords(key, "replace")

\* C8 as amended: three sources with priorities 0, 1 and 999 that each
\* define the same template key yield the priority-999 source's content and
\* a ledger of exactly two records, both `keep` against the priority-999
\* entry, in the order the sources were processed (priority 1, then 0).
C8_ThreeSourcesKeepTwice ==
  \A key \in KeysOf("templates") :
    ThreeSourcesOneKey(key)
      => /\ TopWinsWithTwoRecords(key, "keep")
         /\ \A r \in 1..2 : mergedKnowledge.conflicts[r].existing.priority = 999

\* The three sources were passed in the order 0, 1, 999.
C8_Witness ==
  \E key \in KeysOf("templates") :
    /\ ThreeSourcesOneKey(key)
    /\ knowledgeSources[1].priority = 0
    /\ knowledgeSources[2].priority = 1
    /\ knowledgeSources[3].priority = 999

\* The number of artifacts of a category folded so far is the number of
\* keys of its map plus the number of its conflict records.
OneRecordPerCollision ==
  \A category \in Categories :
    Cardinality({ n \in DOMAIN folded : folded[n].category = category })
      = Cardinality(DOMAIN mergedKnowledge[category])
          + Len(SelectSeq(mergedKnowledge.conflicts,
                          LAMBDA c : c.type = TypeOf(category)))

\* C9: every collision produces exactly one conflict record: in every state
\* of a merge and for every category, the number of artifacts folded in so
\* far is the number of keys in the category's map plus the number of
\* conflict records of the category, whatever the strategy and the
\* resolution; and the ledger only grows.
C9_OneRecordPerCollision ==
  [][ /\ OneRecordPerCollision'
      /\ Len(mergedKnowledge.conflicts) <= Len(mergedKnowledge'.conflicts)
      /\ SubSeq(mergedKnowledge'.conflicts, 1, Len(mergedKnowledge.conflicts))
           = mergedKnowledge.conflicts ]_vars

\* A data key collided twice: once merged, once resolved by the strategy.
C9_Witness ==
  /\ Merged
  /\ Len(mergedKnowledge.conflicts) = 2
  /\ mergedKnowledge.conflicts[1].resolution = "merged"
  /\ mergedKnowledge.conflicts[2].resolution \in {"keep", "replace", "manual"}
  /\ OneRecordPerCollision

(***************************************************************************)
(* Claims about resolveKnowledge, checked under SpecResolve.               *)
(***************************************************************************)

\* C5: in resolveKnowledge with the default `priority` strategy local
\* knowledge wins ties: when resolveKnowledge has returned and a key of
\* templates, workflows or configs was defined both by a registered
\* federated source of priority 999 and by a local knowledge directory
\* (pushed with priority 999), the merged entry of the key has the origin
\* `local` and the content of a local directory's artifact.
C5_LocalWinsTies ==
  (rpc = "done" /\ conflictResolution = "priority") =>
    \A category \in {"templates", "workflows", "configs"} :
      \A key \in KeysOf(category) :
        LET folds == FoldsOf(category, key)
            locals == { n \in folds : SourceOf(n).source = "local" }
            federated == { n \in folds : /\ SourceOf(n).source = "federated"
                                         /\ SourceOf(n).priority = 999 }
            entry == mergedKnowledge[category][key]
        IN  (locals # {} /\ federated # {}) =>
              /\ entry.source = "local"
              /\ \E n \in locals : entry.content = folded[n].content

\* The declared path of the source is a cache directory that does not
\* exist.
Missing(source) ==
  /\ source.path \in { r.local_cache : r \in Repos }
  /\ source.path \notin cache

\* The sources of the list passed to the merger without the missing ones
\* (and without those whose directory had gone when the merger looked).
Remaining ==
  LET Exists(source) ==
        /\ ~Missing(source)
        /\ \E i \in DOMAIN mergedKnowledge.sources :
             mergedKnowledge.sources[i].path = source.path
  IN  SelectSeq(knowledgeSources, Exists)

\* The tree after the n-th and the later artifacts, of those that were
\* scanned, that belong to `source` are folded into `mk`.
RECURSIVE FoldFrom(_, _, _)
FoldFrom(mk, source, n) ==
  IF n > Len(folded)
    THEN mk
    ELSE LET file == File(folded[n].key, folded[n].content)
             category == folded[n].category
         IN  FoldFrom(IF SourceOf(n) # source
                        THEN mk
                        ELSE IF category = "data"
                               THEN FoldData(mk, file, source)
                               ELSE FoldEntry(mk, category, TypeOf(category), file, source),
                      source, n + 1)

\* The tree of a merge of the first k sources of the sorted list `sources`
\* alone, each with the artifacts that were scanned for it.
RECURSIVE MergeAlone(_, _)
MergeAlone(sources, k) ==
  IF k = 0
    THEN EmptyTree(Len(sources), conflictResolution)
    ELSE LET source == sources[k]
             mk == MergeAlone(sources, k - 1)
         IN  FoldFrom([mk EXCEPT !.sources =
                         Append(@, [name |-> Origin(source), path |-> source.path,
                                    priority |-> source.priority,
                                    type |-> source.source])],
                      source, 1)

\* The tree mergeKnowledgeSources returns for the remaining sources alone.
TreeOfRemaining ==
  LET mk == MergeAlone(SortSources(Remaining), Len(Remaining))
  IN  [mk EXCEPT !.metadata.summary =
         [templates |-> Cardinality(DOMAIN mk.templates),
          workflows |-> Cardinality(DOMAIN mk.workflows),
          data |-> Cardinality(DOMAIN mk.data),
          configs |-> Cardinality(DOMAIN mk.configs),
          conflicts |-> Len(mk.conflicts)]]

\* A missing source left no provenance record and no artifact in the tree.
MissingLeftNoTrace ==
  \A i \in DOMAIN sortedSources :
    Missing(sortedSources[i]) =>
      /\ \A j \in DOMAIN mergedKnowledge.sources :
           mergedKnowledge.sources[j].path # sortedSources[i].path
      /\ \A n \in DOMAIN folded : folded[n].pos # i

\* C25 as stated: a source whose declared path does not exist is skipped
\* without aborting the merge: it adds no provenance record, no map entry
\* and no conflict record, and the merged tree equals the tree of a merge
\* of the remaining sources alone.
C25_SkippedLeavesNoTrace ==
  Merged => MissingLeftNoTrace /\ mergedKnowledge = TreeOfRemaining

\* C25: a source whose declared path does not exist is skipped without
\* aborting the merge: it adds no provenance record, no map entry and no
\* conflict record, and the merged tree equals the tree of a merge of the
\* remaining sources alone except for metadata.totalSources, which counts
\* the skipped sources too.
C25_SkippedIsCounted ==
  Merged =>
    /\ MissingLeftNoTrace
    /\ mergedKnowledge =
         [TreeOfRemaining EXCEPT !.metadata.totalSources = Len(knowledgeSources)]

\* C25 witness: the cache directory of the first of three sources is
\* missing, the two others were merged and collided on a key.
C25_Witness ==
  /\ Merged
  /\ Len(knowledgeSources) = 3
  /\ Missing(sortedSources[1])
  /\ Len(Remaining) = 2
  /\ mergedKnowledge.metadata.totalSources = 3
  /\ Len(mergedKnowledge.sources) = 2
  /\ \E n, m \in DOMAIN folded :
       /\ folded[n].pos = 2 /\ folded[m].pos = 3
       /\ folded[n].category = folded[m].category
       /\ folded[n].key = folded[m].key
  /\ Len(mergedKnowledge.conflicts) >= 1

(***************************************************************************)
(* Claims about GitManager.shouldSync, checked under SpecPolicy.           *)
(***************************************************************************)

\* C11: shouldSync answers false for every source whose sync_policy is
\* on_demand or manual, whatever time has passed and whether or not a
\* sync timestamp is recorded for the source.
C11_OnDemandManualNeverSync ==
  (answer.asked /\ answer.sync_policy \in {"on_demand", "manual"}) => ~answer.result

C13_ThresholdInclusive ==
  (answer.asked /\ answer.synced) =>
    /\ answer.sync_policy = "daily" => (answer.result <=> answer.timeDiff >= 24 * Hour)
    /\ answer.sync_policy = "weekly" => (answer.result <=> answer.timeDiff >= 7 * Day)

(***************************************************************************)
(* Claims about forceSync, checked under SpecForce.                        *)
(***************************************************************************)

\* C14: forceSync always performs network I/O: every forceSync call, also
\* one issued right after a successful sync of its key or while another
\* sync of the key is running, has issued a clone or a pull when it
\* returns, and at its return the key's sync timestamp differs from the one
\* recorded before the call.
C14_ForceSyncAlwaysSyncs ==
  [][ \A c \in Calls :
        (calls[c].pc # "done" /\ calls'[c].pc = "done" /\ forceSyncs'[c].forced) =>
          /\ calls'[c].io
          /\ Stamp(syncTimestamps', LockKey(calls'[c].repoUrl, calls'[c].localPath))
               # forceSyncs'[c].before ]_vars

(***************************************************************************)
(* Claims about cleanCache, checked under SpecClean.                       *)
(***************************************************************************)

\* C15: when cleanCache(name) returns without an error for a repository
\* named `name` whose key was in syncTimestamps, the repository's cache
\* directory is absent, its timestamp entry is deleted, and no other path
\* was removed; for every form of URL, https URLs included.
C15_CleanCacheRemovesSource ==
  [][ (cleaning.pc = "remove" /\ cleaning'.pc = "done" /\ ~cleaning'.error) =>
        \A r \in Repos :
          (r.name = cleaning.repoName /\ cleaning.lockKey = LockKey(r.repo, r.local_cache)) =>
            /\ r.local_cache \notin cache'
            /\ ~MapHas(syncTimestamps', LockKey(r.repo, r.local_cache))
            /\ cleaning.localPath = r.local_cache[1]
            /\ cache \ cache' \subseteq {r.local_cache} ]_vars


(***************************************************************************)
(* Claims about syncAllRepositories, checked under SpecBatch.              *)
(***************************************************************************)

\* The names of the registered sources.
Registered == { federatedRepos[i].name : i \in DOMAIN federatedRepos }

\* C17: a sync that ends in error does not cancel the others: when
\* syncAllRepositories returns, in either mode and forced or not, the sync
\* of every registered source has been attempted and has ended, and the
\* results map has one entry for every registered source and no other.
C17_FailuresDoNotCancel ==
  batch.pc = "done" =>
    /\ DOMAIN batch.results = Registered
    /\ \A i \in DOMAIN federatedRepos : batch.tasks[i].pc = "done"

\* C17 witness: a batch over two sources has returned; the sync of the
\* first ended in error and the second was synced with success.
C17_Witness ==
  /\ batch.pc = "done"
  /\ Len(federatedRepos) = 2
  /\ batch.results[federatedRepos[1].name] = "error"
  /\ batch.results[federatedRepos[2].name] = "success"
  /\ calls[2].io

\* The statuses syncRepository has returned and syncAllRepositories has
\* stored so far.
StatusesProduced ==
  { batch.results[name] : name \in DOMAIN batch.results } \cup
  { batch.tasks[i].status : i \in { j \in DOMAIN batch.tasks :
                                      batch.tasks[j].pc \in {"returned", "done"} } }

\* C18 as stated: every per-source status of syncRepository and of the
\* results of syncAllRepositories is success, error or in_progress.
C18_TriState == StatusesProduced \subseteq {"success", "error", "in_progress"}

\* C18: every per-source status of syncRepository and of the results of
\* syncAllRepositories is success, error, in_progress or skipped; skipped is
\* what a source gets whose policy says that no sync is needed.
C18_FourStatuses ==
  StatusesProduced \subseteq {"success", "error", "in_progress", "skipped"}

\* C18 witness: a batch has returned with one source skipped by its policy
\* and the other in progress elsewhere.
C18_Witness ==
  /\ batch.pc = "done"
  /\ "skipped" \in StatusesProduced
  /\ "in_progress" \in StatusesProduced

\* C19 as stated: in the summary of syncAllRepositories every registered
\* source is a success or a failure: successful + failed = total.
C19_CountsAddUp ==
  batch.pc = "done" => batch.summary.successful + batch.summary.failed = batch.summary.total

\* C19: the summary counts the entries with status success and those with
\* status error; the sources in progress and the skipped ones are in
\* neither count, so successful + failed is total less the number of
\* those, and reaches total only when there are none.
C19_CountsLeaveOutOthers ==
  batch.pc = "done" =>
    LET others == { name \in DOMAIN batch.results :
                      batch.results[name] \in {"in_progress", "skipped"} }
    IN  /\ batch.summary.total = Len(federatedRepos)
        /\ batch.summary.successful + batch.summary.failed + Cardinality(others)
             = batch.summary.total

\* C19 witness: a batch over two sources has returned, one synced with
\* success and one skipped: 1 successful, 0 failed of 2.
C19_Witness ==
  /\ batch.pc = "done"
  /\ batch.summary = [total |-> 2, successful |-> 1, failed |-> 0, forced |-> FALSE]
  /\ \E name \in DOMAIN batch.results : batch.results[name] = "skipped"

\* C20: with parallelSync false the sources are synced one at a time in
\* registry order: as long as the sync of the i-th source has not returned
\* its result, the sync of the next one has not started, has taken no lock
\* and has issued no git operation.
C20_SequentialInOrder ==
  ~batch.parallelSync =>
    \A i \in DOMAIN batch.tasks :
      (i + 1 \in DOMAIN batch.tasks /\ batch.tasks[i].pc # "done") =>
        /\ batch.tasks[i + 1].pc = "idle"
        /\ calls[i + 1].pc = "idle"
        /\ ~calls[i + 1].io

\* C20 witness: in sequential mode the first source has been synced and the
\* sync of the second has issued its git operation.
C20_Witness ==
  /\ batch.pc = "loop"
  /\ ~batch.parallelSync
  /\ Len(federatedRepos) = 2
  /\ batch.tasks[1] = [pc |-> "done", status |-> "success"]
  /\ batch.tasks[2].pc = "syncing"
  /\ calls[1].io
  /\ calls[2].io


(***************************************************************************)
(* Claims about addRepository and removeRepository, checked under          *)
(* SpecRoundTrip.                                                          *)
(***************************************************************************)

\* C16: round trip: after addRepository(name, cfg), a successful sync and
\* removeRepository(name), the registry, the configuration document and the
\* saved file are without the key name, the cache directory of the source
\* is absent, and syncTimestamps has no entry for the key of the source.
C16_RoundTrip ==
  (admin.pc = "removed" /\ admin.lastStatus = "success") =>
    /\ admin.name \notin RegistryNames
    /\ admin.name \notin admin.document
    /\ admin.name \notin admin.saved
    /\ admin.repo.local_cache \notin cache
    /\ ~MapHas(syncTimestamps, LockKey(admin.repo.repo, admin.repo.local_cache))


(***************************************************************************)
(* Claims about failures in GitManager.syncRepo, checked under SpecSync.   *)
(***************************************************************************)

\* Call c ends in this step.
Ends(c) == InFlight(c) /\ calls'[c].pc = "done"

\* The pull of call c has failed: the call is in pullRepository's catch.
Recovering(c) == calls[c].pc \in {"reset", "pullRetry"}

\* C26 as stated: every failure of a clone, pull, checkout, reset or
\* filesystem step ends the call with the result {status: error}: a call
\* whose pull failed ends in error.
C26_EveryFailureIsError ==
  [][ \A c \in Calls :
        (Ends(c) /\ Recovering(c)) => calls'[c].result.status = "error" ]_vars

\* C26: syncRepo never throws: every call that took the lock ends with a
\* structured result, success or error, and has released the lock of its
\* key (a call that finds the lock taken returns in_progress at once).  A
\* failure of pathExists, ensureDir, clone, the log after clone, the reset
\* or the second pull ends the call with status error; a failure of
\* revparse, checkout, the first pull or its log starts the recovery, which
\* ends the call with success when reset and second pull succeed.
C26_NeverThrows ==
  [][ \A c \in Calls :
        Ends(c) =>
          /\ calls'[c].result.status \in {"success", "error"}
          /\ ~MapHas(lockFiles', KeyOf(c))
          /\ (calls[c].pc \in {"pathExists", "ensureDir", "clone"}
                => calls'[c].result.status = "error")
          /\ (calls'[c].result.status = "success"
                => calls[c].pc \in {"cloneLog", "pullLog", "pullRetry"})
          /\ (calls[c].pc = "reset" => calls'[c].result.status = "error") ]_vars

\* C26 witness: a call whose clone was issued and failed has returned the
\* result error, and its key has no lock.
C26_Witness ==
  \E c \in Calls :
    /\ calls[c].pc = "done"
    /\ calls[c].result.status = "error"
    /\ calls[c].io
    /\ calls[c].localPath \notin cache
    /\ ~MapHas(lockFiles, KeyOf(c))

\* C27: when the cache path exists and the pull fails, syncRepo makes
\* exactly one recovery attempt: a call is in the first pull at most once,
\* from there it goes on, or to the one reset, from the reset to the one
\* more pull or to its end, and from the second pull to its end only (at
\* most two pulls and one reset per call).  A recovery that succeeds ends
\* with success, operation reset_and_pull and the timestamp of the key set
\* to the current time; a failed reset or second pull ends with error and
\* the timestamps unchanged.
C27_OneRecovery ==
  [][ \A c \in Calls :
        /\ calls[c].pc = "pull" => calls'[c].pc \in {"pull", "pullLog", "reset"}
        /\ calls[c].pc = "pullLog" => calls'[c].pc \in {"pullLog", "done", "reset"}
        /\ calls[c].pc = "reset" => calls'[c].pc \in {"reset", "pullRetry", "done"}
        /\ calls[c].pc = "pullRetry" => calls'[c].pc \in {"pullRetry", "done"}
        /\ calls'[c].pc = "reset" =>
             calls[c].pc \in {"revparse", "checkout", "pull", "pullLog", "reset"}
        /\ (Ends(c) /\ Recovering(c)) =>
             IF calls'[c].result.status = "success"
               THEN /\ calls[c].pc = "pullRetry"
                    /\ calls'[c].result.operation = "reset_and_pull"
                    /\ MapHas(syncTimestamps', KeyOf(c))
                    /\ syncTimestamps'[KeyOf(c)] = now
               ELSE /\ calls'[c].result.status = "error"
                    /\ syncTimestamps' = syncTimestamps ]_vars

\* C27 witness: the cache path existed, the first pull failed at a later
\* time than the last sync of the key, and the recovery succeeded: the call
\* has returned success with operation reset_and_pull and the key has the
\* time of the recovery.
C27_Witness ==
  \E c \in Calls :
    /\ calls[c].pc = "done"
    /\ calls[c].result = [status |-> "success", operation |-> "reset_and_pull"]
    /\ calls[c].localPath \in cache
    /\ MapHas(syncTimestamps, KeyOf(c))
    /\ syncTimestamps[KeyOf(c)] = MaxTime

(***************************************************************************)
(* Claims about data collisions and the strategies, checked under          *)
(* SpecMerge.                                                              *)
(***************************************************************************)

\* processData is about to fold a data file whose key the tree has.
DataCollision ==
  /\ mpc = "data"
  /\ pending # <<>>
  /\ MapHas(mergedKnowledge.data, NormalizeKey(Head(pending).relativePath))

\* The key of the artifact about to be folded, the entry the tree has for
\* it, and the values the two contents parse to.
PendingKey == NormalizeKey(Head(pending).relativePath)

ExistingData == mergedKnowledge.data[PendingKey]

ExistingValue == ParseContent(ExistingData.content)

IncomingValue == ParseContent(Head(pending).content)

\* The last record of the ledger after the step.
LastConflict == mergedKnowledge'.conflicts[Len(mergedKnowledge'.conflicts)]

\* C21: when two sources define the same data key and both contents parse
\* as structured maps with disjoint field sets, then under every strategy
\* the content of the merged data entry is the union of the fields of
\* both, each field with its original value, and the collision is recorded
\* with resolution `merged`.
C21_DisjointMapsUnion ==
  [][ ( /\ DataCollision
        /\ ExistingValue.t = "map"
        /\ IncomingValue.t = "map"
        /\ DOMAIN ExistingValue.fields \cap DOMAIN IncomingValue.fields = {} )
      => LET after == ParseContent(mergedKnowledge'.data[PendingKey].content)
         IN  /\ after.t = "map"
             /\ DOMAIN after.fields
                  = DOMAIN ExistingValue.fields \cup DOMAIN IncomingValue.fields
             /\ \A f \in DOMAIN ExistingValue.fields :
                  after.fields[f] = ExistingValue.fields[f]
             /\ \A f \in DOMAIN IncomingValue.fields :
                  after.fields[f] = IncomingValue.fields[f]
             /\ Len(mergedKnowledge'.conflicts) = Len(mergedKnowledge.conflicts) + 1
             /\ LastConflict.type = "data"
             /\ LastConflict.key = PendingKey
             /\ LastConflict.resolution = "merged" ]_vars

\* C21 witness: under the `manual` strategy the data entry of a key holds
\* the fields owner and team, each naming the source that gave it, and the
\* ledger has the record `merged`.
C21_Witness ==
  /\ conflictResolution = "manual"
  /\ \E key \in DOMAIN mergedKnowledge.data :
       LET value == ParseContent(mergedKnowledge.data[key].content)
       IN  /\ mergedKnowledge.data[key].merged
           /\ value.t = "map"
           /\ DOMAIN value.fields = {"owner", "team"}
           /\ value.fields["owner"] # value.fields["team"]
  /\ Len(mergedKnowledge.conflicts) = 1
  /\ mergedKnowledge.conflicts[1].resolution = "merged"


\* The step leaves the data entry of the key as it was and records the
\* resolution handleConflict's strategy gives for the entry and the source.
FallsBackToStrategy ==
  /\ mergedKnowledge'.data[PendingKey] = ExistingData
  /\ Len(mergedKnowledge'.conflicts) = Len(mergedKnowledge.conflicts) + 1
  /\ LastConflict.type = "data"
  /\ LastConflict.key = PendingKey
  /\ LastConflict.resolution =
       CASE conflictResolution = "priority" ->
              IF sortedSources[idx].priority > ExistingData.priority
                THEN "replace" ELSE "keep"
         [] conflictResolution = "local_wins" ->
              IF ExistingData.source = "local" THEN "keep" ELSE "replace"
         [] OTHER -> "manual"

\* C22 as stated: when two sources define the same data key and at least
\* one side's content does not parse as a structured map, no structural
\* merge happens and the conflict record has the resolution of the
\* configured strategy.
C22_NonMapFallsBack ==
  [][ (DataCollision /\ (ExistingValue.t # "map" \/ IncomingValue.t # "map"))
        => FallsBackToStrategy ]_vars

\* C22: when two sources define the same data key and at least one side's
\* content parses to a plain string, no structural merge happens (the
\* entry is not altered) and the conflict record has the resolution of the
\* configured strategy; a list is an object and is merged like a map.
C22_StringFallsBack ==
  [][ (DataCollision /\ (ExistingValue.t = "string" \/ IncomingValue.t = "string"))
        => FallsBackToStrategy ]_vars

\* C22 witness: under `local_wins` a plain-text data file met the map of a
\* federated source: the ledger says `replace`, the entry is the first
\* source's and is not merged.
C22_Witness ==
  /\ Merged
  /\ conflictResolution = "local_wins"
  /\ Len(mergedKnowledge.conflicts) = 1
  /\ mergedKnowledge.conflicts[1].type = "data"
  /\ mergedKnowledge.conflicts[1].resolution = "replace"
  /\ \E n \in DOMAIN folded :
       /\ folded[n].category = "data"
       /\ folded[n].content.format = "plain"
       /\ n > 1
       /\ ~mergedKnowledge.data[folded[n].key].merged
       /\ mergedKnowledge.data[folded[n].key].content.format = "json"
       /\ mergedKnowledge.data[folded[n].key].content = folded[1].content


\* The first artifact folded for the key of the category.
FirstFold(category, key) ==
  CHOOSE n \in FoldsOf(category, key) : \A m \in FoldsOf(category, key) : n <= m

\* C24: under the `manual` strategy every collision in templates,
\* workflows and configs is recorded with resolution `manual` and leaves
\* the entry unchanged: in every state, each key of these maps has the
\* content, origin and priority of the first artifact processed for it, and
\* the ledger has one record `manual` for each later artifact of the key.
C24_ManualKeepsFirst ==
  conflictResolution = "manual" =>
    \A category \in {"templates", "workflows", "configs"} :
      \A key \in KeysOf(category) :
        LET first == FirstFold(category, key)
            entry == mergedKnowledge[category][key]
            records == ConflictsOf(category, key)
        IN  /\ entry.content = folded[first].content
            /\ entry.source = Origin(SourceOf(first))
            /\ entry.priority = SourceOf(first).priority
            /\ Len(records) = Cardinality(FoldsOf(category, key)) - 1
            /\ \A r \in DOMAIN records : records[r].resolution = "manual"

\* C24 witness: under `manual` a merge is done in which a source of
\* priority 0 and then one of priority 999 were passed, both with the same
\* workflow key: the entry is that of the priority-999 source, processed
\* first, and the ledger has one record.
C24_Witness ==
  /\ Merged
  /\ conflictResolution = "manual"
  /\ Len(knowledgeSources) = 2
  /\ knowledgeSources[1].priority = 0
  /\ knowledgeSources[2].priority = 999
  /\ \E key \in KeysOf("workflows") :
       /\ Cardinality(FoldsOf("workflows", key)) = 2
       /\ mergedKnowledge.workflows[key].priority = 999
       /\ Len(ConflictsOf("workflows", key)) = 1

(***************************************************************************)
(* Claims about the `local_wins` strategy, checked under SpecLocalWins.    *)
(***************************************************************************)

\* C23: under `local_wins` every key of templates, workflows and configs
\* that at least one local source defines ends the merge with the content
\* of a local source's artifact, because a collision keeps the existing
\* entry whenever its origin is the local source and replaces it otherwise.
C23_LocalWins ==
  (Merged /\ conflictResolution = "local_wins") =>
    \A category \in {"templates", "workflows", "configs"} :
      \A key \in KeysOf(category) :
        LET locals == { n \in FoldsOf(category, key) : SourceOf(n).source = "local" }
        IN  locals # {} =>
              \E n \in locals : mergedKnowledge[category][key].content = folded[n].content


(***************************************************************************)
(* Claims about the registry, checked under SpecRoundTrip.                 *)
(***************************************************************************)

\* C28: after any sequence of addRepository and removeRepository calls the
\* local_cache paths of the sources in the registry are pairwise distinct.
C28_DisjointCaches ==
  \A i, j \in DOMAIN federatedRepos :
    i # j => federatedRepos[i].local_cache # federatedRepos[j].local_cache


\* C29: addRepository(name, cfg) with a valid cfg adds name to the
\* registry, saves the configuration document with name in it while no
\* sync of the call has started, and then starts the first sync of that
\* source (the lock is taken and the clone or pull attempt is under way),
\* whatever the sync history of the key and whatever the policy.
C29_AddSyncsAtOnce ==
  [][ (admin.pc = "addSave" /\ admin'.pc # "failed") =>
        /\ admin.name \in RegistryNames
        /\ calls[1].pc = "idle"
        /\ admin.name \in admin'.saved
        /\ admin'.pc = "addSync"
        /\ calls'[1].pc = "pathExists"
        /\ calls'[1].repoUrl = admin.repo.repo
        /\ calls'[1].localPath = admin.repo.local_cache
        /\ \A c \in Calls \ {1} : calls'[c] = calls[c] ]_vars


(***************************************************************************)
(* Claims about the maps and the ledger, checked under SpecMerge.          *)
(***************************************************************************)

\* The loop of a category is about to fold a file whose key the map of the
\* category has.
Collision ==
  /\ mpc \in Categories
  /\ pending # <<>>
  /\ MapHas(mergedKnowledge[mpc], PendingKey)

\* C30: the category maps are consistent with the ledger: a collision in
\* any category that is recorded with resolution `replace` leaves the entry
\* of the key with the incoming source's content, origin and priority, and
\* one recorded with `keep` or `manual` leaves the entry unchanged.
C30_MapFollowsLedger ==
  [][ Collision =>
        LET entry == mergedKnowledge'[mpc][PendingKey]
            source == sortedSources[idx]
        IN  /\ Len(mergedKnowledge'.conflicts) = Len(mergedKnowledge.conflicts) + 1
            /\ LastConflict.key = PendingKey
            /\ LastConflict.resolution = "replace" =>
                 /\ entry.content = Head(pending).content
                 /\ entry.source = Origin(source)
                 /\ entry.priority = source.priority
            /\ LastConflict.resolution \in {"keep", "manual"} =>
                 entry = mergedKnowledge[mpc][PendingKey] ]_vars

\* C31: under the `priority` strategy, when two sources of different
\* priority define the same data key, both contents parse as structured
\* maps and both define a field with different values, the merged entry
\* holds for that field the value of the source of higher priority.
C31_HigherPriorityField ==
  [][ ( /\ DataCollision
        /\ conflictResolution = "priority"
        /\ ExistingValue.t = "map"
        /\ IncomingValue.t = "map"
        /\ ExistingData.priority # sortedSources[idx].priority )
      => LET after == ParseContent(mergedKnowledge'.data[PendingKey].content)
         IN  \A f \in DOMAIN ExistingValue.fields \cap DOMAIN IncomingValue.fields :
               ExistingValue.fields[f] # IncomingValue.fields[f] =>
                 after.fields[f] =
                   IF ExistingData.priority > sortedSources[idx].priority
                     THEN ExistingValue.fields[f]
                     ELSE IncomingValue.fields[f] ]_vars

(***************************************************************************)
(* Claims about the registry records, checked under SpecBatch.             *)
(***************************************************************************)

\* The step in which the function of the i-th iteration of
\* syncAllRepositories gets the result of its git sync.
GotResult(i) ==
  /\ i \in DOMAIN batch.tasks
  /\ batch.tasks[i].pc = "syncing"
  /\ batch'.tasks[i].pc = "done"

\* C32: the registry record of a source changes its lastSync exactly when
\* a sync of the source succeeds: a syncRepository call whose git sync
\* returns error or in_progress leaves lastSync unchanged, and a successful
\* forced sync through syncAllRepositories(true) sets the record's
\* lastSync and status.
C32_LastSyncOnSuccess ==
  [][ \A i \in DOMAIN federatedRepos :
        GotResult(i) =>
          /\ (~batch.force /\ calls[i].result.status \in {"error", "in_progress"})
               => federatedRepos'[i].lastSync = federatedRepos[i].lastSync
          /\ (batch.force /\ calls[i].result.status = "success")
               => /\ federatedRepos'[i].lastSync = now
                  /\ federatedRepos'[i].status = "success" ]_vars

(***************************************************************************)
(* Claims about sync errors in resolveKnowledge, checked under             *)
(* SpecResolveFair.                                                        *)
(***************************************************************************)

\* The sync of a registered source ended in error.
SyncFailed ==
  \E i \in DOMAIN federatedRepos : federatedRepos[i].status = "error"

\* The list for the merger holds every registered source, in registry
\* order and with its cache path, followed by local knowledge directories
\* of the configuration in their order.
PassedAll ==
  LET federated == SelectSeq(knowledgeSources, LAMBDA s : s.source = "federated")
      locals == SelectSeq(knowledgeSources, LAMBDA s : s.source = "local")
  IN  /\ knowledgeSources = federated \o locals
      /\ federated = [i \in DOMAIN federatedRepos |-> FederatedSource(federatedRepos[i])]
      /\ \A i \in DOMAIN federated : federated[i].path = federatedRepos[i].local_cache
      /\ \E picked \in Subsequences(localKnowledge) :
           locals = [n \in DOMAIN picked |-> LocalSource(picked[n])]

\* C33: sync errors are non-fatal to resolveKnowledge: when the sync of
\* one or more registered sources ended in error, resolveKnowledge still
\* completes, the merger is passed every registered source (the failed
\* ones too, with their cache path) and the local knowledge directories,
\* and a merged tree is returned.
C33_SyncErrorsNonFatal ==
  /\ []((SyncFailed /\ rpc \in {"merging", "done"}) => PassedAll)
  /\ []((SyncFailed /\ rpc = "done") =>
          /\ Merged
          /\ mergedKnowledge.metadata.totalSources = Len(knowledgeSources)
          /\ mergedKnowledge.metadata.summary # NoSummary)
  /\ (SyncFailed ~> rpc = "done")

\* C33 witness: resolveKnowledge has returned; the sync of the first of
\* two registered sources ended in error and that of the second in
\* success; both were passed, followed by a local directory, and the cache
\* of the failed source, which exists, was merged.
C33_Witness ==
  /\ rpc = "done"
  /\ Len(federatedRepos) = 2
  /\ federatedRepos[1].status = "error"
  /\ federatedRepos[2].status = "success"
  /\ Len(knowledgeSources) = 3
  /\ knowledgeSources[1].repo = federatedRepos[1].name
  /\ knowledgeSources[3].source = "local"
  /\ \E j \in DOMAIN mergedKnowledge.sources :
       mergedKnowledge.sources[j].name = federatedRepos[1].name

(***************************************************************************)
(* Claims about freshness, checked under SpecBatch.                        *)
(***************************************************************************)

\* The source was synced with success at `stamp` and less than its policy's
\* interval has elapsed since: 24 hours for daily, 7 days for weekly.
Fresh(config, stamp) ==
  /\ stamp # 0
  /\ \/ config.sync_policy = "daily" /\ now - stamp < 24 * Hour
     \/ config.sync_policy = "weekly" /\ now - stamp < 7 * Day

\* C34: after a successful sync of a source with policy daily (weekly),
\* every later non-forced syncRepository call made before 24 hours (7
\* days) have elapsed returns skipped for the source, issues no git
\* operation and takes no lock; a forced sync in that window does issue
\* git operations.
C34_FreshnessWindow ==
  [][ \A i \in DOMAIN federatedRepos :
        LET config == federatedRepos[i]
            lockKey == LockKey(config.repo, config.local_cache)
        IN  /\ ( /\ batch.pc = "loop" /\ batch.i = i /\ batch'.i = i + 1
                 /\ ~batch.force
                 /\ Fresh(config, Stamp(syncTimestamps, lockKey)) )
               => /\ batch'.tasks[i] = [pc |-> "returned", status |-> "skipped"]
                  /\ calls' = calls
                  /\ lockFiles' = lockFiles
            /\ ( /\ batch.pc = "loop" /\ batch.force
                 /\ calls[i].pc # "done" /\ calls'[i].pc = "done"
                 /\ forceSyncs'[i].forced
                 /\ Fresh(config, forceSyncs'[i].before) )
               => calls'[i].io ]_vars

(***************************************************************************)
(* Claims about rejected calls, checked under SpecSync.                    *)
(***************************************************************************)

\* C35: a syncRepo call that is rejected with in_progress has no effect on
\* the lock table: the entry of the key, owned by the sync that is still
\* running, is present and unchanged when the rejected call returns, and
\* stays present until the owning call finishes.
C35_RejectedLeavesLock ==
  /\ [][ \A c \in Calls :
           ( /\ calls[c].pc = "idle"
             /\ calls'[c].pc = "done"
             /\ calls'[c].result.status = "in_progress" )
           => /\ MapHas(lockFiles', KeyOf(c)')
              /\ lockFiles' = lockFiles ]_vars
  /\ [](\A k \in LockKeys : InFlightOn(k) # {} => MapHas(lockFiles, k))

(***************************************************************************)
(* Claims about the processing order, checked under SpecMerge.             *)
(***************************************************************************)

\* C36: because the sources are folded in descending priority order, under
\* the `priority` strategy the priority of the incoming source is never
\* greater than that of the existing entry at a collision in templates,
\* workflows or configs; hence no conflict record of these categories has
\* resolution `replace` and the first inserted entry of a key is never
\* overwritten.
C36_NeverReplaced ==
  /\ [][ (Collision /\ mpc # "data" /\ conflictResolution = "priority") =>
           /\ sortedSources[idx].priority <= mergedKnowledge[mpc][PendingKey].priority
           /\ LastConflict.type = TypeOf(mpc)
           /\ LastConflict.resolution = "keep"
           /\ mergedKnowledge'[mpc][PendingKey] = mergedKnowledge[mpc][PendingKey] ]_vars
  /\ [](conflictResolution = "priority" =>
          /\ \A r \in DOMAIN mergedKnowledge.conflicts :
               mergedKnowledge.conflicts[r].type # "data" =>
                 mergedKnowledge.conflicts[r].resolution # "replace"
          /\ \A category \in {"templates", "workflows", "configs"} :
               \A key \in KeysOf(category) :
                 LET first == FirstFold(category, key)
                     entry == mergedKnowledge[category][key]
                 IN  /\ entry.content = folded[first].content
                     /\ entry.source = Origin(SourceOf(first))
                     /\ entry.priority = SourceOf(first).priority)

\* C36 witness: under `priority` three sources were passed in ascending
\* order of priority and all gave the same config key: the merge is done,
\* the entry is that of the source passed last, and the ledger has two
\* records `keep` for the key.
C36_Witness ==
  /\ Merged
  /\ conflictResolution = "priority"
  /\ Len(knowledgeSources) = 3
  /\ knowledgeSources[1].priority < knowledgeSources[2].priority
  /\ knowledgeSources[2].priority < knowledgeSources[3].priority
  /\ \E key \in KeysOf("configs") :
       /\ Cardinality(FoldsOf("configs", key)) = 3
       /\ mergedKnowledge.configs[key].source = Origin(knowledgeSources[3])
       /\ Len(ConflictsOf("configs", key)) = 2
       /\ \A r \in 1..2 : ConflictsOf("configs", key)[r].resolution = "keep"

(***************************************************************************)
(* Claims about overlapping syncRepository calls, checked under            *)
(* SpecOverlap.                                                            *)
(***************************************************************************)

\* The git syncs of the i-th entry that syncRepository started, the manager
\* admitted, and that have not returned to syncRepository.
SyncsOf(i) ==
  { c \in Calls :
      /\ calls[c].pc # "idle"
      /\ calls[c].result.status # "in_progress"
      /\ KeyOf(c) = LockKey(federatedRepos[i].repo, federatedRepos[i].local_cache) }

\* C37: the registry flag syncInProgress of a source is true in every
\* state in which a git sync started by syncRepository for the source has
\* not yet returned; a concurrent syncRepository call on the source that
\* returns in_progress or skipped (a step that starts no git sync and
\* receives no result) leaves the flag unchanged; so overlapping
\* syncRepository calls on one source start at most one git sync.
C37_FlagCoversSync ==
  /\ [](\A i \in DOMAIN federatedRepos :
          /\ SyncsOf(i) # {} => federatedRepos[i].syncInProgress
          /\ Cardinality(SyncsOf(i)) <= 1)
  /\ [][ calls' = calls =>
           \A i \in DOMAIN federatedRepos :
             federatedRepos'[i].syncInProgress = federatedRepos[i].syncInProgress ]_vars

(***************************************************************************)
(* Claims about unsuccessful forced syncs, checked under SpecForce.        *)
(***************************************************************************)

\* C38: a forceSync call that ends in error or in_progress does not lose
\* sync history: the sync-timestamp entry of its key after the call equals
\* the entry before the call (so shouldSync answers alike before and
\* after).
C38_FailedForceKeepsStamp ==
  [][ \A c \in Calls :
        ( /\ calls[c].pc # "done"
          /\ calls'[c].pc = "done"
          /\ forceSyncs'[c].forced
          /\ calls'[c].result.status \in {"error", "in_progress"} )
        => Stamp(syncTimestamps', KeyOf(c)') = forceSyncs'[c].before ]_vars

(***************************************************************************)
(* Claims about cleaning next to syncs, checked under SpecCleanSync.       *)
(***************************************************************************)

\* A syncRepo call on the directory is running and holds the lock.
LockedBySync(localPath) ==
  \E c \in Calls :
    /\ InFlight(c)
    /\ calls[c].localPath = localPath
    /\ MapHas(lockFiles, KeyOf(c))

\* Every syncRepo call of the run has returned or was never issued.
Quiet == \A c \in Calls : ~InFlight(c)

\* C39: cleanCache, for one named source or for the whole cache root,
\* never removes a cache directory while a syncRepo call on that directory
\* holds the lock; and once all operations have finished no
\* sync-timestamp entry remains for a removed source: a sync that
\* completes after the removal does not re-create it.
C39_CleanRespectsSync ==
  /\ [][ \A localPath \in cache \ cache' : ~LockedBySync(localPath) ]_vars
  /\ []((Quiet /\ cleaning.pc = "done" /\ ~cleaning.error) =>
          /\ cleaning.lockKey # <<>> => ~MapHas(syncTimestamps, cleaning.lockKey)
          /\ (cleaning.repoName = Null) => syncTimestamps = EmptyMap)

====
